---- MODULE Spec2Model ----
(***************************************************************************)
(* Verification model of the CUA trajectory execution core of AUI:         *)
(*   - the browser pool of agents/base_commenter.py,                       *)
(*   - the model call gateway of utils/model_client.py,                    *)
(*   - the operator / UI-TARS policies of agents/*_cua_policy.py and the   *)
(*     executor loop that drives them,                                     *)
(*   - the task scheduler of utils/parallel_runner.py,                     *)
(*   - prompt building, response decoding and verification helpers.        *)
(* Each component has its own specification (SpecPool, SpecGateway,        *)
(* SpecExec, SpecRun, SpecRunLive, SpecCapture, SpecSafeCapture,           *)
(* SpecAttempts, SpecDecode, SpecPrompt, SpecVerify, SpecRescale); the     *)
(* variables of the other components keep their initial values there.      *)
(***************************************************************************)
EXTENDS Integers, Sequences, FiniteSets, TLC

VARIABLES
    \* ---- browser pool (agents/base_commenter.py) ----
    browser_pool,       \* _browser_pool: idle sessions, a list
    browser_semaphore,  \* free permits of _browser_semaphore
    pool_lock,          \* holder of _pool_lock, 0 when free
    cpc,                \* per capture call: where the coroutine stands
    browser,            \* per capture call: its local `browser`, 0 when none
    closed,             \* sessions on which close() was called
    exc,                \* per capture call: the exception its try body raised, "none" if none
    ended,              \* per capture call: "returned" or the exception it raised, "none" before
    close_raised,       \* capture calls whose `await browser.close()` raised
    \* ---- model call gateway (utils/model_client.py) ----
    gw_fn,              \* the ModelClient method invoked
    gw_provider,        \* model_config['provider'] of the model
    gw_pc,              \* "request", "sleep", "returned" or "raised"
    gw_attempt,         \* `attempt` of call_model / call_operator_model
    gw_outer,           \* iterations done by the loop around call_model: the for loop of
                        \* call_model_with_gpt5_params, the while loop of CUAPolicy
    gw_sleeper,         \* which loop is in asyncio.sleep: "inner" or "outer"
    gw_requests,        \* requests sent to the inference service
    gw_rate,            \* requests answered by a rate-limit error
    gw_other,           \* requests answered by another error
    gw_delays,          \* the asyncio.sleep delays so far, in half seconds
    gw_result,          \* what the invocation returned or raised
    \* ---- trajectory executor (agents/*_cua_policy.py and their base) ----
    policy,             \* "operator" (OperatorCUAPolicy) or "uitars" (CUAPolicy)
    status,             \* INIT, RUNNING, COMPLETED, MAX_STEPS or FATAL
    attempt_no,         \* execute_task calls made on the policy object so far
    current_step,       \* the step counter of the running attempt
    trajectory,         \* the steps appended so far in the running attempt
    last_response_id,   \* OperatorCUAPolicy._last_response_id
    last_call_id,       \* OperatorCUAPolicy._last_call_id
    op_attempt,         \* `attempt` of _get_computer_use_action
    xpc,                \* "idle", "get_action" or "dispatch"
    pending,            \* the action returned by _get_computer_use_action
    last_call,          \* the latest model call and the state it was made in
    called,             \* whether the running attempt has called the model
    prior_set,          \* whether the latest execute_task found continuation state set
    session,            \* the attempt's browser session: "none", "held" or "released"
    error,              \* the error recorded in the attempt's result, "none" if none
    fail_kinds,         \* the kinds of failed turns of the current step so far
    \* ---- scheduler (utils/parallel_runner.py) ----
    max_concurrent,     \* ParallelRunner.max_concurrent
    api_max_concurrent,   \* ParallelRunner.api_max_concurrent
    local_max_concurrent, \* ParallelRunner.local_max_concurrent
    semaphores,         \* values of semaphore, api_semaphore, local_semaphore
    valid_combinations, \* the valid_combinations argument
    is_coroutine,       \* asyncio.iscoroutinefunction(task_func)
    tasks,              \* `tasks` of run_parallel_tasks: the pairs, in creation order
    tpc,                \* per task: "created", "wait", "running", "done" or "raised"
    outcome,            \* per task: what its task function did, "none" before
    task_result,        \* per task: what _run_single_task returned, NoResult before
    runs,               \* per task: how many times its task function was invoked
    results,            \* `results` of run_parallel_tasks
    main_pc,            \* run_parallel_tasks: "idle", "awaiting", "collected", "returned", "raised"
    summary,            \* the summary returned, NoSummary before
    \* ---- attempts running on policy objects (agents/operator_cua_policy.py) ----
    policy_of,          \* per attempt: the OperatorCUAPolicy object it runs on, 0 before
    obj_response_id,    \* per policy object: its _last_response_id
    obj_call_id,        \* per policy object: its _last_call_id
    apc,                \* per attempt: "idle", "turn", "await" or "done"
    sent,               \* per attempt: the ids its last model call carried, << >> for an initial call
    turns,              \* per attempt: the responses it has received
    \* ---- capture timeout (BaseCommenter._safe_capture_screenshot) ----
    timed_out,          \* capture calls whose asyncio.wait_for timeout has fired
    \* ---- one decoded model turn (agents/operator_cua_policy.py, agents/cua_policy.py) ----
    dec_response,       \* the model response of the turn: its protocol, id and candidate actions
    dec_before,         \* _last_response_id and _last_call_id before the turn
    dec_stored,         \* _last_response_id and _last_call_id now
    dec_result,         \* what the turn gave: NotDecoded before, then an action or an error
    \* ---- prompt construction (_build_computer_use_prompt of both policies) ----
    pb_policy,          \* the policy whose prompt builder is called: "operator", "uitars", "none" before
    pb_trajectory,      \* the `trajectory` argument: the actions of the steps so far
    pb_prompt,          \* the prompt built, NoPrompt before
    \* ---- screenshot verifier (agents/vlm_verifier.py) ----
    vf_mode,            \* the `mode` argument of verify, "none" before
    vf_expected,        \* whether verify was given an expected_text
    vf_model,           \* the `vlm_model` argument
    vf_pc,              \* verify: "idle", "attempt", "returned" or "raised"
    vf_calls,           \* model calls made by verify
    vf_errors,          \* the exceptions caught by the retry loop, in order
    vf_last_error,      \* `last_error`
    vf_result,          \* what verify returned or raised, "none" before
    \* ---- text-grammar coordinates (CUAPolicy._get_computer_use_action, parser call) ----
    rs_display,         \* self.display_width, self.display_height of the policy, NoDisplay before
    rs_text,            \* the text response: whether it has a Thought line, and its Action calls
    rs_result           \* what the decoding gave, NotDecoded before

poolVars == <<browser_pool, browser_semaphore, pool_lock, cpc, browser, closed>>

capVars == <<exc, ended, close_raised>>

gwVars == <<gw_fn, gw_provider, gw_pc, gw_attempt, gw_outer, gw_sleeper,
            gw_requests, gw_rate, gw_other, gw_delays, gw_result>>

execVars == <<policy, status, attempt_no, current_step, trajectory,
              last_response_id, last_call_id, op_attempt, xpc, pending,
              last_call, called, prior_set, session, error, fail_kinds>>

runVars == <<max_concurrent, api_max_concurrent, local_max_concurrent, semaphores, valid_combinations, is_coroutine,
             tasks, tpc, outcome, task_result, runs, results, main_pc, summary>>

attVars == <<policy_of, obj_response_id, obj_call_id, apc, sent, turns>>

timeoutVars == <<timed_out>>

decodeVars == <<dec_response, dec_before, dec_stored, dec_result>>

promptVars == <<pb_policy, pb_trajectory, pb_prompt>>

verifyVars == <<vf_mode, vf_expected, vf_model, vf_pc, vf_calls, vf_errors, vf_last_error, vf_result>>

rescaleVars == <<rs_display, rs_text, rs_result>>

vars == <<poolVars, capVars, gwVars, execVars, runVars, attVars, timeoutVars, decodeVars, promptVars, verifyVars, rescaleVars>>

(***************************************************************************)
(* Browser pool                                                            *)
(***************************************************************************)

\* Number of concurrent _capture_version_screenshot calls of the model.
NumCallers == 6

\* asyncio.Semaphore(5)
SemaphorePermits == 5

\* `len(_browser_pool) < 3`
PoolCapacity == 3

Callers == 1 .. NumCallers

NoBrowser == 0

\* `_browser_pool.pop()`: the element returned and the list left behind
PopResult(pool) == pool[Len(pool)]

PopRest_Keep(pool) == pool

PopRest(pool) == SubSeq(pool, 1, Len(pool) - 1)

\* `if _browser_pool:`
PoolHasIdle_Never(pool) == FALSE

PoolHasIdle(pool) == Len(pool) > 0

\* `len(_browser_pool) < 3`
BelowCapacity_Inclusive(pool) == Len(pool) <= PoolCapacity

BelowCapacity(pool) == Len(pool) < PoolCapacity

\* Sessions that a capture call owns: being started, in use, or being returned.
Owns(c) == cpc[c] \in {"starting", "holding", "ret_lock", "closing"}

\* Sessions handed out by acquire whose holder has not called release yet.
CheckedOut(c) == cpc[c] = "holding"

\* No model call made yet.
NoCall ==
    [mode |-> "none", previous_response_id |-> "None", call_id |-> "None",
     stored_response_id |-> "None", stored_call_id |-> "None", first |-> FALSE,
     converted |-> FALSE, thought |-> FALSE]

\* No action.
NoAction == [action |-> "none", coordinate |-> << >>, text |-> << >>, nums |-> << >>]

\* A policy object right after __init__, before any execute_task.
ExecIdle ==
    /\ status = "INIT"
    /\ attempt_no = 0
    /\ current_step = 0
    /\ trajectory = << >>
    /\ last_response_id = "None"
    /\ last_call_id = "None"
    /\ op_attempt = 0
    /\ xpc = "idle"
    /\ pending = NoAction
    /\ last_call = NoCall
    /\ called = FALSE
    /\ prior_set = FALSE
    /\ session = "none"
    /\ error = "none"
    /\ fail_kinds = {}

\* The gateway before any invocation.
GwIdle ==
    /\ gw_fn = "none"
    /\ gw_provider = "none"
    /\ gw_pc = "returned"
    /\ gw_attempt = 0
    /\ gw_outer = 0
    /\ gw_sleeper = "none"
    /\ gw_requests = 0
    /\ gw_rate = 0
    /\ gw_other = 0
    /\ gw_delays = << >>
    /\ gw_result = "none"

PoolStart ==
    /\ browser_pool = << >>
    /\ browser_semaphore = SemaphorePermits
    /\ pool_lock = 0
    /\ cpc = [c \in Callers |-> "idle"]
    /\ browser = [c \in Callers |-> NoBrowser]
    /\ closed = {}
    /\ exc = [c \in Callers |-> "none"]
    /\ ended = [c \in Callers |-> "none"]
    /\ close_raised = {}

\* No result, no summary.
NoResult == [success |-> FALSE, error |-> "none", final |-> FALSE]

NoSummary ==
    [total_tasks |-> 0, successful_tasks |-> 0, failed_tasks |-> 0,
     results |-> << >>, final |-> FALSE]

\* No ParallelRunner in use.
RunIdle ==
    /\ max_concurrent = 0
    /\ api_max_concurrent = 0
    /\ local_max_concurrent = 0
    /\ semaphores = [default |-> 0, api |-> 0, local |-> 0]
    /\ valid_combinations = [restricted |-> FALSE, pairs |-> {}]
    /\ is_coroutine = FALSE
    /\ tasks = << >>
    /\ tpc = << >>
    /\ outcome = << >>
    /\ task_result = << >>
    /\ runs = << >>
    /\ results = << >>
    /\ main_pc = "idle"
    /\ summary = NoSummary

\* Concurrent attempts of the scheduler's (model, task) pairs.
NumAttempts == 2

\* Model turns of one attempt.
MaxTurns == 2

Attempts == 1 .. NumAttempts

\* The policy objects: at most one per attempt.
PolicyObjects == 1 .. NumAttempts

\* `_last_response_id = None`, `_last_call_id = None`
NoId == <<"None">>

\* No attempt started, every policy object as __init__ leaves it.
AttIdle ==
    /\ policy_of = [a \in Attempts |-> 0]
    /\ obj_response_id = [o \in PolicyObjects |-> NoId]
    /\ obj_call_id = [o \in PolicyObjects |-> NoId]
    /\ apc = [a \in Attempts |-> "idle"]
    /\ sent = [a \in Attempts |-> << >>]
    /\ turns = [a \in Attempts |-> 0]

\* No asyncio.wait_for timeout has fired.
TimeoutIdle == timed_out = {}

\* No turn decoded.
NotDecoded == [ok |-> FALSE, action |-> NoAction, error |-> "not decoded"]

NoStored == [response_id |-> "None", call_id |-> "None"]

NoResponse == [protocol |-> "none", id |-> << >>, calls |-> << >>]

DecodeIdle ==
    /\ dec_response = NoResponse
    /\ dec_before = NoStored
    /\ dec_stored = NoStored
    /\ dec_result = NotDecoded

\* No prompt built.
NoPrompt == [built |-> FALSE, repeat_warning |-> << >>, history |-> << >>]

PromptIdle ==
    /\ pb_policy = "none"
    /\ pb_trajectory = << >>
    /\ pb_prompt = NoPrompt

\* VLMVerifier.verify not called.
VerifyIdle ==
    /\ vf_mode = "none"
    /\ vf_expected = FALSE
    /\ vf_model = "none"
    /\ vf_pc = "idle"
    /\ vf_calls = 0
    /\ vf_errors = << >>
    /\ vf_last_error = "None"
    /\ vf_result = "none"

\* No viewport, no text response.
NoDisplay == [width |-> 0, height |-> 0]

NoText == [thought |-> FALSE, actions |-> << >>]

RescaleIdle ==
    /\ rs_display = NoDisplay
    /\ rs_text = NoText
    /\ rs_result = NotDecoded

InitPool == PoolStart /\ GwIdle /\ policy = "none" /\ ExecIdle /\ RunIdle /\ AttIdle /\ TimeoutIdle /\ DecodeIdle /\ PromptIdle /\ VerifyIdle /\ RescaleIdle

\* _get_browser_from_pool up to its first suspension, entered with _pool_lock
\* free: under the lock pop an idle session; on a miss enter the semaphore and
\* construct a BrowserController (a session nobody else has: it is named after
\* its creator), or wait for a permit.
AcquireBody(c) ==
    /\ IF PoolHasIdle(browser_pool)
         THEN /\ browser' = [browser EXCEPT ![c] = PopResult(browser_pool)]
              /\ browser_pool' = PopRest(browser_pool)
              /\ cpc' = [cpc EXCEPT ![c] = "holding"]
              /\ UNCHANGED browser_semaphore
         ELSE IF browser_semaphore > 0
         THEN /\ browser_semaphore' = browser_semaphore - 1
              /\ browser' = [browser EXCEPT ![c] = c]
              /\ cpc' = [cpc EXCEPT ![c] = "starting"]
              /\ UNCHANGED browser_pool
         ELSE /\ cpc' = [cpc EXCEPT ![c] = "get_sem"]
              /\ UNCHANGED <<browser_pool, browser_semaphore, browser>>
    /\ UNCHANGED <<pool_lock, closed>>

\* The task of one _capture_version_screenshot call starts running and calls
\* _get_browser_from_pool; it is suspended when _pool_lock is taken.  Calls
\* are numbered in the order in which the event loop first runs them.
Call(c) ==
    /\ cpc[c] = "idle"
    /\ \A d \in Callers : d < c => cpc[d] # "idle"
    /\ IF pool_lock = 0
         THEN AcquireBody(c)
         ELSE /\ cpc' = [cpc EXCEPT ![c] = "get_lock"]
              /\ UNCHANGED <<browser_pool, browser_semaphore, pool_lock, browser, closed>>

\* A waiter of _pool_lock in _get_browser_from_pool obtains the lock.
GetBrowserFromPool_NoLock(c) ==
    /\ cpc[c] = "get_lock"
    /\ AcquireBody(c)

GetBrowserFromPool(c) ==
    /\ cpc[c] = "get_lock"
    /\ pool_lock = 0
    /\ AcquireBody(c)

\* A waiter of _browser_semaphore obtains a permit and constructs the
\* BrowserController (a session nobody else has: it is named after its creator).
EnterSemaphore(c) ==
    /\ cpc[c] = "get_sem"
    /\ browser_semaphore > 0
    /\ browser_semaphore' = browser_semaphore - 1
    /\ browser' = [browser EXCEPT ![c] = c]
    /\ cpc' = [cpc EXCEPT ![c] = "starting"]
    /\ UNCHANGED <<browser_pool, pool_lock, closed>>

\* `await browser.start()` returns; `async with` gives the permit back and
\* acquire returns the browser.
StartDone(c) ==
    /\ cpc[c] = "starting"
    /\ browser_semaphore' = browser_semaphore + 1
    /\ cpc' = [cpc EXCEPT ![c] = "holding"]
    /\ UNCHANGED <<browser_pool, pool_lock, browser, closed>>

\* `await browser.start()` raises (an error of the start, or CancelledError
\* when the task is cancelled there): the permit is given back, acquire raises
\* and the capture call ends without a session (acquire is outside the try).
StartFail_KeepsPermit(c) ==
    /\ cpc[c] = "starting"
    /\ browser' = [browser EXCEPT ![c] = NoBrowser]
    /\ cpc' = [cpc EXCEPT ![c] = "failed"]
    /\ UNCHANGED <<browser_pool, browser_semaphore, pool_lock, closed>>

StartFail(c) ==
    /\ cpc[c] = "starting"
    /\ browser_semaphore' = browser_semaphore + 1
    /\ browser' = [browser EXCEPT ![c] = NoBrowser]
    /\ cpc' = [cpc EXCEPT ![c] = "failed"]
    /\ UNCHANGED <<browser_pool, pool_lock, closed>>

\* _return_browser_to_pool entered with _pool_lock free: append when the idle
\* list is below capacity, otherwise start closing the browser (the lock stays
\* held across `await browser.close()`).
ReleaseBody(c) ==
    /\ IF BelowCapacity(browser_pool)
         THEN /\ browser_pool' = Append(browser_pool, browser[c])
              /\ browser' = [browser EXCEPT ![c] = NoBrowser]
              /\ cpc' = [cpc EXCEPT ![c] = "done"]
              /\ UNCHANGED pool_lock
         ELSE /\ pool_lock' = c
              /\ cpc' = [cpc EXCEPT ![c] = "closing"]
              /\ UNCHANGED <<browser_pool, browser>>
    /\ UNCHANGED <<browser_semaphore, closed>>

\* The try body of _capture_version_screenshot ends (by return or by an
\* exception) and the finally clause calls _return_browser_to_pool; the call
\* is suspended when _pool_lock is taken.
CaptureBodyEnds(c) ==
    /\ cpc[c] = "holding"
    /\ IF pool_lock = 0
         THEN ReleaseBody(c)
         ELSE /\ cpc' = [cpc EXCEPT ![c] = "ret_lock"]
              /\ UNCHANGED <<browser_pool, browser_semaphore, pool_lock, browser, closed>>

\* A waiter of _pool_lock in _return_browser_to_pool obtains the lock.
ReturnBrowserToPool(c) ==
    /\ cpc[c] = "ret_lock"
    /\ pool_lock = 0
    /\ ReleaseBody(c)

\* `await browser.close()` ends, normally or by an exception that the bare
\* except swallows; the lock is released.
CloseDone(c) ==
    /\ cpc[c] = "closing"
    /\ pool_lock = c
    /\ closed' = closed \cup {browser[c]}
    /\ browser' = [browser EXCEPT ![c] = NoBrowser]
    /\ pool_lock' = 0
    /\ cpc' = [cpc EXCEPT ![c] = "done"]
    /\ UNCHANGED <<browser_pool, browser_semaphore>>

NextPool ==
    \/ \E c \in Callers : Call(c) /\ UNCHANGED <<capVars, gwVars, execVars, runVars, attVars, timeoutVars, decodeVars, promptVars, verifyVars, rescaleVars>>
    \/ \E c \in Callers : GetBrowserFromPool(c) /\ UNCHANGED <<capVars, gwVars, execVars, runVars, attVars, timeoutVars, decodeVars, promptVars, verifyVars, rescaleVars>>
    \/ \E c \in Callers : EnterSemaphore(c) /\ UNCHANGED <<capVars, gwVars, execVars, runVars, attVars, timeoutVars, decodeVars, promptVars, verifyVars, rescaleVars>>
    \/ \E c \in Callers : StartDone(c) /\ UNCHANGED <<capVars, gwVars, execVars, runVars, attVars, timeoutVars, decodeVars, promptVars, verifyVars, rescaleVars>>
    \/ \E c \in Callers : StartFail(c) /\ UNCHANGED <<capVars, gwVars, execVars, runVars, attVars, timeoutVars, decodeVars, promptVars, verifyVars, rescaleVars>>
    \/ \E c \in Callers : CaptureBodyEnds(c) /\ UNCHANGED <<capVars, gwVars, execVars, runVars, attVars, timeoutVars, decodeVars, promptVars, verifyVars, rescaleVars>>
    \/ \E c \in Callers : ReturnBrowserToPool(c) /\ UNCHANGED <<capVars, gwVars, execVars, runVars, attVars, timeoutVars, decodeVars, promptVars, verifyVars, rescaleVars>>
    \/ \E c \in Callers : CloseDone(c) /\ UNCHANGED <<capVars, gwVars, execVars, runVars, attVars, timeoutVars, decodeVars, promptVars, verifyVars, rescaleVars>>

SpecPool == InitPool /\ [][NextPool]_vars

\* Elements of the idle list, and the sessions that exist and are not closed.
IdleSet == { browser_pool[i] : i \in 1 .. Len(browser_pool) }

OwnedSet == { browser[c] : c \in { d \in Callers : Owns(d) } }

LiveCount == Len(browser_pool) + Cardinality({ c \in Callers : Owns(c) })

\* C1: no session is held by two capture calls at once; the idle list holds
\* no session twice and no session that is checked out.
C1_NoSharedSession ==
    /\ \A c, d \in Callers :
          (c # d /\ Owns(c) /\ Owns(d)) => browser[c] # browser[d]
    /\ \A i, j \in 1 .. Len(browser_pool) :
          i # j => browser_pool[i] # browser_pool[j]
    /\ IdleSet \cap OwnedSet = {}

\* C1 witness: a session created by one call is reused by another call while a
\* third party holds a different session.
C1_Witness ==
    \E c, d \in Callers :
        /\ c # d
        /\ cpc[c] = "holding" /\ browser[c] # c
        /\ cpc[d] = "holding"

\* C2 (as claimed): live sessions never exceed the concurrency ceiling.
C2_CeilingRespected == LiveCount <= SemaphorePermits

\* C3 (as claimed): while as many sessions as the ceiling are checked out and
\* the idle list is empty, no further caller obtains a session.
C3_BlockedAtCeiling ==
    [][ ( /\ Cardinality({ c \in Callers : CheckedOut(c) }) = SemaphorePermits
          /\ browser_pool = << >> )
        => \A c \in Callers : ~CheckedOut(c) => ~CheckedOut(c)' ]_vars

(***************************************************************************)
(* Model call gateway                                                      *)
(***************************************************************************)

\* `max_retries = 5` of call_model (remote) and call_operator_model
MaxRetries == 5

\* `for attempt in range(5)` of call_model_with_gpt5_params
Gpt5Attempts == 5

\* Errors that a local model may answer with before it is made to succeed.
MaxLocalErrors == 17

\* Empty responses that CUAPolicy._get_computer_use_action may meet in one turn.
MaxEmptyResponses == 2

Providers == {"local", "openai", "azure_openai"}

\* What the inference service does with one request: it answers (with a text
\* or with an empty text) or the SDK call raises an exception.
Responses == {"text", "empty"}

Errors == {"Error code: 429 - rate limit", "Connection error"}

\* _is_rate_limit_error: '429' in str(error)
IsRateLimitError(e) == e = "Error code: 429 - rate limit"

\* `is_local = model_config.get('provider') == 'local'`
IsLocal_Never(provider) == FALSE

IsLocal(provider) == provider = "local"

\* `min(2 + attempt * 0.5, 10)` seconds, in half seconds
LocalRetryDelay(attempt) ==
    IF 4 + attempt < 20 THEN 4 + attempt ELSE 20

\* call_model, remote branch: `self._is_rate_limit_error(e) and attempt <= max_retries`
RemoteShouldRetry_Unbounded(e, attempt) == IsRateLimitError(e)

RemoteShouldRetry_Strict(e, attempt) == IsRateLimitError(e) /\ attempt < MaxRetries

RemoteShouldRetry(e, attempt) == IsRateLimitError(e) /\ attempt <= MaxRetries

\* call_operator_model: `if attempt > max_retries: raise e`
OperatorGivesUp(attempt) == attempt > MaxRetries

\* 2 ** n
RECURSIVE Pow2(_)
Pow2(n) == IF n = 0 THEN 1 ELSE 2 * Pow2(n - 1)

\* One invocation of a ModelClient method on a model of some provider.
GwStart ==
    /\ gw_fn \in {"call_model", "call_operator_model", "call_model_with_gpt5_params",
                 "call_cua_model"}
    /\ gw_provider \in Providers
    /\ (gw_fn = "call_operator_model" => gw_provider # "local")
    /\ (gw_fn = "call_cua_model" => gw_provider = "local")
    /\ gw_pc = "request"
    /\ gw_attempt = 0
    /\ gw_outer = 0
    /\ gw_sleeper = "none"
    /\ gw_requests = 0
    /\ gw_rate = 0
    /\ gw_other = 0
    /\ gw_delays = << >>
    /\ gw_result = "none"

InitGateway == PoolStart /\ GwStart /\ policy = "none" /\ ExecIdle /\ RunIdle /\ AttIdle /\ TimeoutIdle /\ DecodeIdle /\ PromptIdle /\ VerifyIdle /\ RescaleIdle

\* The request counters after one more request answered by error e.
CountError(e) ==
    /\ gw_requests' = gw_requests + 1
    /\ gw_rate' = IF IsRateLimitError(e) THEN gw_rate + 1 ELSE gw_rate
    /\ gw_other' = IF IsRateLimitError(e) THEN gw_other ELSE gw_other + 1

\* The except branch of call_model_with_gpt5_params for exception e raised in
\* iteration gw_outer: sleep 2 ** attempt on a rate-limit error, raise on the
\* last iteration, sleep 1 otherwise.
Gpt5Except(e) ==
    IF IsRateLimitError(e)
      THEN /\ gw_pc' = "sleep"
           /\ gw_sleeper' = "outer"
           /\ gw_delays' = Append(gw_delays, 2 * Pow2(gw_outer))
           /\ gw_result' = e
      ELSE IF gw_outer = Gpt5Attempts - 1
      THEN /\ gw_pc' = "raised"
           /\ gw_result' = e
           /\ UNCHANGED <<gw_sleeper, gw_delays>>
      ELSE /\ gw_pc' = "sleep"
           /\ gw_sleeper' = "outer"
           /\ gw_delays' = Append(gw_delays, 2)
           /\ gw_result' = e

\* Whether this invocation runs the retry loop of call_model.
InCallModel ==
    \/ gw_fn = "call_model"
    \/ gw_fn = "call_cua_model"
    \/ gw_fn = "call_model_with_gpt5_params" /\ gw_provider # "azure_openai"

\* call_model: the request returns response_content, which is returned as is
\* (also to call_model_with_gpt5_params, which returns it).
CallModelReturns(r) ==
    /\ InCallModel
    /\ gw_pc = "request"
    /\ gw_requests' = gw_requests + 1
    /\ gw_pc' = "returned"
    /\ gw_result' = r
    /\ UNCHANGED <<gw_fn, gw_provider, gw_attempt, gw_outer, gw_sleeper,
                   gw_rate, gw_other, gw_delays>>

\* call_model: the request raises e. Local models sleep and retry; remote
\* models retry a rate-limit error while attempt <= max_retries; anything
\* else is raised, to the caller or to the except branch of
\* call_model_with_gpt5_params.
CallModelRaises(e) ==
    /\ InCallModel
    /\ gw_pc = "request"
    /\ IsLocal(gw_provider) => gw_requests < MaxLocalErrors
    /\ CountError(e)
    /\ gw_attempt' = gw_attempt + 1
    /\ IF IsLocal(gw_provider)
         THEN /\ gw_pc' = "sleep"
              /\ gw_sleeper' = "inner"
              /\ gw_delays' = Append(gw_delays, LocalRetryDelay(gw_attempt + 1))
              /\ gw_result' = e
         ELSE IF RemoteShouldRetry(e, gw_attempt + 1)
         THEN /\ gw_pc' = "sleep"
              /\ gw_sleeper' = "inner"
              /\ gw_delays' = Append(gw_delays, 4)
              /\ gw_result' = e
         ELSE IF gw_fn # "call_model_with_gpt5_params"
         THEN /\ gw_pc' = "raised"
              /\ gw_result' = e
              /\ UNCHANGED <<gw_sleeper, gw_delays>>
         ELSE Gpt5Except(e)
    /\ UNCHANGED <<gw_fn, gw_provider, gw_outer>>

\* call_operator_model: the request returns the response object.
OperatorModelReturns(r) ==
    /\ gw_fn = "call_operator_model"
    /\ gw_pc = "request"
    /\ gw_requests' = gw_requests + 1
    /\ gw_pc' = "returned"
    /\ gw_result' = r
    /\ UNCHANGED <<gw_fn, gw_provider, gw_attempt, gw_outer, gw_sleeper,
                   gw_rate, gw_other, gw_delays>>

\* call_operator_model: the request raises e; raise once attempt exceeds
\* max_retries, otherwise sleep 2 seconds and retry.
OperatorModelRaises(e) ==
    /\ gw_fn = "call_operator_model"
    /\ gw_pc = "request"
    /\ CountError(e)
    /\ gw_attempt' = gw_attempt + 1
    /\ gw_result' = e
    /\ IF OperatorGivesUp(gw_attempt + 1)
         THEN /\ gw_pc' = "raised"
              /\ UNCHANGED <<gw_sleeper, gw_delays>>
         ELSE /\ gw_pc' = "sleep"
              /\ gw_sleeper' = "inner"
              /\ gw_delays' = Append(gw_delays, 4)
    /\ UNCHANGED <<gw_fn, gw_provider, gw_outer>>

\* call_model_with_gpt5_params, azure_openai branch: the request returns.
Gpt5AzureReturns(r) ==
    /\ gw_fn = "call_model_with_gpt5_params"
    /\ gw_provider = "azure_openai"
    /\ gw_pc = "request"
    /\ gw_requests' = gw_requests + 1
    /\ gw_pc' = "returned"
    /\ gw_result' = r
    /\ UNCHANGED <<gw_fn, gw_provider, gw_attempt, gw_outer, gw_sleeper,
                   gw_rate, gw_other, gw_delays>>

\* call_model_with_gpt5_params, azure_openai branch: the request raises e.
Gpt5AzureRaises(e) ==
    /\ gw_fn = "call_model_with_gpt5_params"
    /\ gw_provider = "azure_openai"
    /\ gw_pc = "request"
    /\ CountError(e)
    /\ Gpt5Except(e)
    /\ UNCHANGED <<gw_fn, gw_provider, gw_attempt, gw_outer>>

\* CUAPolicy._get_computer_use_action, which calls call_cua_model (call_model
\* for UI-TARS, a local model): `if not response: continue` starts the next
\* iteration of its loop, a fresh call_model invocation, at once.
EmptyResponseRetry ==
    /\ gw_fn = "call_cua_model"
    /\ gw_pc = "returned"
    /\ gw_result = "empty"
    /\ gw_outer < MaxEmptyResponses
    /\ gw_outer' = gw_outer + 1
    /\ gw_attempt' = 0
    /\ gw_pc' = "request"
    /\ UNCHANGED <<gw_fn, gw_provider, gw_sleeper, gw_requests, gw_rate,
                   gw_other, gw_delays, gw_result>>

\* asyncio.sleep of the while loop of call_model / call_operator_model ends:
\* `continue` issues the next request.
InnerSleepDone ==
    /\ gw_pc = "sleep"
    /\ gw_sleeper = "inner"
    /\ gw_pc' = "request"
    /\ gw_sleeper' = "none"
    /\ UNCHANGED <<gw_fn, gw_provider, gw_attempt, gw_outer, gw_requests,
                   gw_rate, gw_other, gw_delays, gw_result>>

\* asyncio.sleep of call_model_with_gpt5_params ends: `continue` starts the
\* next iteration (a fresh call_model for the other providers), or the loop
\* is exhausted and `raise Exception("Max retries exceeded")` runs.
OuterSleepDone ==
    /\ gw_pc = "sleep"
    /\ gw_sleeper = "outer"
    /\ gw_outer' = gw_outer + 1
    /\ gw_sleeper' = "none"
    /\ gw_attempt' = 0
    /\ IF gw_outer + 1 >= Gpt5Attempts
         THEN /\ gw_pc' = "raised"
              /\ gw_result' = "Max retries exceeded"
         ELSE /\ gw_pc' = "request"
              /\ UNCHANGED gw_result
    /\ UNCHANGED <<gw_fn, gw_provider, gw_requests, gw_rate, gw_other, gw_delays>>

NextGateway ==
    \/ \E r \in Responses : CallModelReturns(r) /\ UNCHANGED <<poolVars, capVars, execVars, runVars, attVars, timeoutVars, decodeVars, promptVars, verifyVars, rescaleVars>>
    \/ \E e \in Errors : CallModelRaises(e) /\ UNCHANGED <<poolVars, capVars, execVars, runVars, attVars, timeoutVars, decodeVars, promptVars, verifyVars, rescaleVars>>
    \/ \E r \in Responses : OperatorModelReturns(r) /\ UNCHANGED <<poolVars, capVars, execVars, runVars, attVars, timeoutVars, decodeVars, promptVars, verifyVars, rescaleVars>>
    \/ \E e \in Errors : OperatorModelRaises(e) /\ UNCHANGED <<poolVars, capVars, execVars, runVars, attVars, timeoutVars, decodeVars, promptVars, verifyVars, rescaleVars>>
    \/ \E r \in Responses : Gpt5AzureReturns(r) /\ UNCHANGED <<poolVars, capVars, execVars, runVars, attVars, timeoutVars, decodeVars, promptVars, verifyVars, rescaleVars>>
    \/ \E e \in Errors : Gpt5AzureRaises(e) /\ UNCHANGED <<poolVars, capVars, execVars, runVars, attVars, timeoutVars, decodeVars, promptVars, verifyVars, rescaleVars>>
    \/ EmptyResponseRetry /\ UNCHANGED <<poolVars, capVars, execVars, runVars, attVars, timeoutVars, decodeVars, promptVars, verifyVars, rescaleVars>>
    \/ InnerSleepDone /\ UNCHANGED <<poolVars, capVars, execVars, runVars, attVars, timeoutVars, decodeVars, promptVars, verifyVars, rescaleVars>>
    \/ OuterSleepDone /\ UNCHANGED <<poolVars, capVars, execVars, runVars, attVars, timeoutVars, decodeVars, promptVars, verifyVars, rescaleVars>>

SpecGateway == InitGateway /\ [][NextGateway]_vars

Remote == ~IsLocal(gw_provider)

C5_RateLimitRetries ==
    (gw_fn = "call_model" /\ Remote) =>
        /\ (gw_other = 0 /\ gw_rate <= MaxRetries /\ gw_requests = gw_rate)
              => gw_pc \in {"sleep", "request"}
        /\ (gw_other = 0 /\ gw_requests = gw_rate + 1)
              => (gw_pc = "returned" /\ gw_result \in Responses)
        /\ gw_rate <= MaxRetries + 1
        /\ gw_rate = MaxRetries + 1
              => /\ gw_pc = "raised"
                 /\ IsRateLimitError(gw_result)
                 /\ gw_requests = MaxRetries + 1

\* C5 witness: 4 rate-limit errors, then the 5th request succeeds.
C5_Witness ==
    /\ gw_fn = "call_model" /\ Remote
    /\ gw_rate = 4 /\ gw_other = 0 /\ gw_requests = 5
    /\ gw_pc = "returned" /\ gw_result = "text"

\* C6: call_model for a local model never raises and has no retry ceiling:
\* after any number of failed requests, of any error class, it is still
\* retrying, and the first request that succeeds is returned.
C6_LocalNeverGivesUp ==
    (gw_fn = "call_model" /\ gw_provider = "local") =>
        /\ gw_pc # "raised"
        /\ gw_pc \in {"sleep", "request"} => gw_requests = gw_rate + gw_other
        /\ gw_pc = "returned"
              => (gw_requests = gw_rate + gw_other + 1 /\ gw_result \in Responses)

\* C6 witness: more failures than any remote ceiling, of both error classes,
\* and then a success.
C6_Witness ==
    /\ gw_fn = "call_model" /\ gw_provider = "local"
    /\ gw_rate + gw_other = MaxLocalErrors
    /\ gw_rate > MaxRetries + 1 /\ gw_other > MaxRetries + 1
    /\ gw_pc = "returned" /\ gw_result = "text"

\* C20 (as claimed): for a remote model only a rate-limit error is followed by
\* a retry, and the delays before the retries of an invocation that met
\* rate-limit errors only start at 1 second and double each time (delays are
\* recorded in half seconds).
C20_ExponentialBackoff ==
    Remote =>
        /\ gw_pc = "sleep" => IsRateLimitError(gw_result)
        /\ gw_other = 0
              => /\ Len(gw_delays) > 0 => gw_delays[1] = 2
                 /\ \A i \in 1 .. Len(gw_delays) - 1 :
                       gw_delays[i + 1] = 2 * gw_delays[i]

\* C21 (as claimed): for a remote model an error that is no rate-limit error
\* is never raised on its first occurrence: it is followed by one generic
\* retry, and raised only when that retry fails too.
C21_OtherErrorRetriedOnce ==
    (Remote /\ gw_rate = 0) =>
        /\ gw_other = 1 => gw_pc \in {"sleep", "request"}
        /\ gw_other = 2 => gw_pc = "raised"
        /\ gw_other <= 2

\* C22 (as claimed): every retry of a local model, whatever the class of the
\* failure (an exception, an empty response), is preceded by a delay of at
\* most 10 seconds (recorded in half seconds): of the requests sent, all but
\* the first come after a sleep.
C22_EveryLocalRetryDelayed ==
    gw_provider = "local" =>
        /\ gw_requests <= Len(gw_delays) + 1
        /\ \A n \in 1 .. Len(gw_delays) : gw_delays[n] <= 20

(***************************************************************************)
(* Action protocol decoder, structured-object protocol                     *)
(***************************************************************************)

\* An attribute of a response object is a tuple: << >> when the object has no
\* such attribute, <<v>> when it has it with value v.
Has(attr) == attr # << >>

\* getattr(obj, name, default)
GetAttr(attr, default) == IF Has(attr) THEN attr[1] ELSE default

\* An action object without any attribute.
OA0 ==
    [type |-> << >>, button |-> << >>, x |-> << >>, y |-> << >>,
     text |-> << >>, scroll_x |-> << >>, scroll_y |-> << >>,
     delta_x |-> << >>, delta_y |-> << >>, keys |-> << >>, key |-> << >>,
     from_x |-> << >>, from_y |-> << >>, to_x |-> << >>, to_y |-> << >>]

\* A value of the button attribute: a string, or something that is no string.
Str(v) == [isstr |-> TRUE, v |-> v]

NonStr == [isstr |-> FALSE, v |-> "2"]

\* str.lower() on the button names of the model
Lower(v) ==
    IF v \in {"RIGHT", "Right", "right"} THEN "right"
    ELSE IF v \in {"LEFT", "left"} THEN "left"
    ELSE v

\* The internal action dictionaries: `action`, `coordinate`, the text payload
\* (`text`, `keys`) and the numeric payload (`pixels_x/y`, `time`, `from`+`to`).
Act(a, c, t, n) == [action |-> a, coordinate |-> c, text |-> t, nums |-> n]

Decoded(a) == [ok |-> TRUE, action |-> a, error |-> "none"]

DecodeError(msg) == [ok |-> FALSE, action |-> NoAction, error |-> msg]

\* self.display_width, self.display_height of OperatorCUAPolicy
DisplayWidth == 1280

DisplayHeight == 720

\* `"right_click" if (isinstance(btn, str) and btn.lower() == "right") else "left_click"`
ClickButton_CaseSensitive(button) ==
    IF Has(button) /\ button[1].isstr /\ button[1].v = "right"
      THEN "right_click"
      ELSE "left_click"

ClickButton(button) ==
    IF Has(button) /\ button[1].isstr /\ Lower(button[1].v) = "right"
      THEN "right_click"
      ELSE "left_click"

\* [getattr(a, 'x', 0), getattr(a, 'y', 0)]
XY(a) == <<GetAttr(a.x, 0), GetAttr(a.y, 0)>>

\* The drag branch of _convert_openai_action_to_internal.
ConvertDrag(a) ==
    LET fx == IF Has(a.from_x) THEN a.from_x ELSE a.x
        fy == IF Has(a.from_y) THEN a.from_y ELSE a.y
        tx == a.to_x
        ty == a.to_y
    IN  IF Has(fx) /\ Has(fy) /\ Has(tx) /\ Has(ty)
          THEN Decoded(Act("drag", << >>, << >>, <<fx[1], fy[1], tx[1], ty[1]>>))
        ELSE IF Has(tx) /\ Has(ty)
          THEN Decoded(Act("mouse_move", <<tx[1], ty[1]>>, << >>, << >>))
        ELSE DecodeError("Operator drag action missing coordinates")

\* The keypress branch.
ConvertKeys(a) ==
    LET keys == IF Has(a.keys) THEN a.keys[1]
                ELSE IF Has(a.key) /\ a.key[1] # "" THEN <<a.key[1]>>
                ELSE << >>
    IN  Decoded(Act("key", << >>, keys, << >>))

\* The scroll branch: scroll_x/scroll_y, else delta_x/delta_y, else 0.
ConvertScroll(a) ==
    LET sx == IF Has(a.scroll_x) THEN a.scroll_x[1] ELSE GetAttr(a.delta_x, 0)
        sy == IF Has(a.scroll_y) THEN a.scroll_y[1] ELSE GetAttr(a.delta_y, 0)
    IN  Decoded(Act("scroll",
                    <<GetAttr(a.x, DisplayWidth \div 2), GetAttr(a.y, DisplayHeight \div 2)>>,
                    << >>, <<sx, sy>>))

\* OperatorCUAPolicy._convert_openai_action_to_internal
ConvertOpenAIActionToInternal(a) ==
    IF ~Has(a.type) THEN DecodeError("Operator action missing type")
    ELSE LET t == a.type[1] IN
      IF t = "click" THEN Decoded(Act(ClickButton(a.button), XY(a), << >>, << >>))
      ELSE IF t \in {"double_click", "left_double"}
        THEN Decoded(Act("double_click", XY(a), << >>, << >>))
      ELSE IF t \in {"right_click", "right_single"}
        THEN Decoded(Act("right_click", XY(a), << >>, << >>))
      ELSE IF t \in {"move", "mousemove", "pointer_move"}
        THEN Decoded(Act("mouse_move", XY(a), << >>, << >>))
      ELSE IF t = "type"
        THEN Decoded(Act("type", << >>, <<GetAttr(a.text, "")>>, << >>))
      ELSE IF t = "scroll" THEN ConvertScroll(a)
      ELSE IF t \in {"keypress", "key_press", "keydown", "key_down", "keyup", "key_up", "key"}
        THEN ConvertKeys(a)
      ELSE IF t = "wait" THEN Decoded(Act("wait", << >>, << >>, <<2>>))
      ELSE IF t = "screenshot" THEN Decoded(Act("screenshot", << >>, << >>, << >>))
      ELSE IF t = "drag" THEN ConvertDrag(a)
      ELSE DecodeError("Unsupported OpenAI action type")

(***************************************************************************)
(* Trajectory executor                                                     *)
(***************************************************************************)

\* max_steps of the policy object.
MaxSteps == 3

\* execute_task calls made on one policy object.
MaxAttempts == 2

\* Model calls of one step after which the model is made to answer with an
\* action (the empty-response loop of the code has no ceiling of its own).
MaxCallsPerStep == 6

\* `max_retries = 5` of OperatorCUAPolicy._get_computer_use_action
PolicyMaxRetries == 5

\* The action objects the operator model answers with in the executor runs.
ClickAt(pt) == [OA0 EXCEPT !.type = <<"click">>, !.x = <<pt[1]>>, !.y = <<pt[2]>>]

ExecOpenAIActions ==
    { ClickAt(<<1, 1>>), OA0, [OA0 EXCEPT !.type = <<"zoom">>] }

ResponseIds == {<< >>, <<"r1">>, <<"r2">>}

CallIds == {<< >>, <<"c1">>, <<"c2">>}

ComputerCalls == [call_id : CallIds, action : ExecOpenAIActions]

\* The response with id "r1" holds the call "c1", the one with id "r2" the
\* call "c2"; either attribute may be missing.
SameResponse(i, c) ==
    ~(i = <<"r1">> /\ c = <<"c2">>) /\ ~(i = <<"r2">> /\ c = <<"c1">>)

\* The stored pairs that one response can have given.
IdsOfOneResponse == {<<"r1", "c1">>, <<"r2", "c2">>}

\* A further computer_call item behind the first one.
SecondCalls ==
    { [call_id |-> <<"c2">>, action |-> ClickAt(<<2, 2>>)] }

\* What call_operator_initial / call_operator_next gives back: an exception,
\* a falsy response, or a response object with an id attribute (or none) and
\* the computer_call items of its output; `dump_raises` tells whether
\* response.model_dump_json() raises.
OperatorResponses ==
    { [kind |-> "raise", id |-> << >>, calls |-> << >>, dump_raises |-> FALSE],
      [kind |-> "empty", id |-> << >>, calls |-> << >>, dump_raises |-> FALSE] }
        \cup { [kind |-> "object", id |-> i, calls |-> << >>, dump_raises |-> FALSE] :
                    i \in ResponseIds }
        \cup UNION { { [kind |-> "object", id |-> i, calls |-> <<c>>,
                          dump_raises |-> FALSE] :
                            c \in { f \in ComputerCalls : SameResponse(i, f.call_id) } } :
                      i \in ResponseIds }
        \cup { [kind |-> "object", id |-> i, calls |-> <<c, d>>, dump_raises |-> FALSE] :
                    i \in {<< >>, <<"r1">>},
                    c \in { f \in ComputerCalls : f.call_id = <<"c1">> },
                    d \in SecondCalls }
        \cup { [kind |-> "object", id |-> <<"r2">>,
                calls |-> <<[call_id |-> <<"c2">>, action |-> ClickAt(<<1, 1>>)]>>,
                dump_raises |-> TRUE] }

\* Actions as parse_action_to_structure_output lists them (verb and point).
ParsedActions ==
    { [verb |-> "click", point |-> <<1, 1>>],
      [verb |-> "finished", point |-> << >>] }

\* What call_cua_model and the parser give for one call of the UI-TARS
\* policy: an exception, an empty response, or a text with or without a
\* Thought line and an Action line, on which the parser raises or returns a
\* list of actions.
TextResponses ==
    { [kind |-> "raise", thought |-> FALSE, action_line |-> FALSE,
       parse_raises |-> FALSE, parsed |-> << >>],
      [kind |-> "empty", thought |-> FALSE, action_line |-> FALSE,
       parse_raises |-> FALSE, parsed |-> << >>] }
        \cup { [kind |-> "text", thought |-> th, action_line |-> FALSE,
                parse_raises |-> FALSE, parsed |-> << >>] : th \in BOOLEAN }
        \cup { [kind |-> "text", thought |-> th, action_line |-> TRUE,
                parse_raises |-> TRUE, parsed |-> << >>] : th \in BOOLEAN }
        \cup { [kind |-> "text", thought |-> th, action_line |-> TRUE,
                parse_raises |-> FALSE, parsed |-> << >>] : th \in BOOLEAN }
        \cup { [kind |-> "text", thought |-> th, action_line |-> TRUE,
                parse_raises |-> FALSE, parsed |-> <<a>>] :
                    th \in BOOLEAN, a \in ParsedActions }
        \cup { [kind |-> "text", thought |-> th, action_line |-> TRUE,
                parse_raises |-> FALSE,
                parsed |-> <<a, [verb |-> "finished", point |-> << >>]>>] :
                    th \in BOOLEAN, a \in ParsedActions }

\* The conversion of a parsed UI-TARS action into an internal action.
ConvertParsedToInternal(pa) ==
    IF pa.verb = "click" THEN Act("left_click", pa.point, << >>, << >>)
    ELSE IF pa.verb = "finished" THEN Act("terminate", << >>, << >>, << >>)
    ELSE Act(pa.verb, pa.point, << >>, << >>)

\* `self._last_response_id = None`, `self._last_call_id = None`
ClearedId_Keep(old) == old

ClearedId(old) == "None"

\* The call made by one iteration of the loop of
\* OperatorCUAPolicy._get_computer_use_action: call_operator_initial when
\* `not self._last_response_id`, otherwise call_operator_next with the stored
\* response id and call id.
OperatorCallFor_AlwaysInitial(resp_id, call_id) ==
    [mode |-> "initial", previous_response_id |-> "None", call_id |-> "None"]

OperatorCallFor(resp_id, call_id) ==
    IF resp_id = "None"
      THEN [mode |-> "initial", previous_response_id |-> "None", call_id |-> "None"]
      ELSE [mode |-> "next", previous_response_id |-> resp_id, call_id |-> call_id]

\* What a step leaves the attempt in: COMPLETED on a terminate action,
\* MAX_STEPS when the step counter has reached the ceiling, RUNNING otherwise.
StepOutcome_CeilingFirst(action, steps) ==
    IF steps >= MaxSteps THEN "MAX_STEPS"
    ELSE IF action.action = "terminate" THEN "COMPLETED"
    ELSE "RUNNING"

StepOutcome_LateCeiling(action, steps) ==
    IF action.action = "terminate" THEN "COMPLETED"
    ELSE IF steps > MaxSteps THEN "MAX_STEPS"
    ELSE "RUNNING"

StepOutcome(action, steps) ==
    IF action.action = "terminate" THEN "COMPLETED"
    ELSE IF steps >= MaxSteps THEN "MAX_STEPS"
    ELSE "RUNNING"

InitExec ==
    /\ PoolStart
    /\ GwIdle
    /\ policy \in {"operator", "uitars"}
    /\ ExecIdle
    /\ RunIdle /\ AttIdle /\ TimeoutIdle /\ DecodeIdle /\ PromptIdle /\ VerifyIdle /\ RescaleIdle

\* execute_task: OperatorCUAPolicy clears its loop state, then the base
\* executor starts a fresh attempt (INIT).
ExecuteTask ==
    /\ xpc = "idle"
    /\ attempt_no < MaxAttempts
    /\ attempt_no' = attempt_no + 1
    /\ prior_set' = (last_response_id # "None")
    /\ IF policy = "operator"
         THEN /\ last_response_id' = ClearedId(last_response_id)
              /\ last_call_id' = ClearedId(last_call_id)
         ELSE UNCHANGED <<last_response_id, last_call_id>>
    /\ status' = "INIT"
    /\ xpc' = "init"
    /\ current_step' = 0
    /\ trajectory' = << >>
    /\ op_attempt' = 0
    /\ pending' = NoAction
    /\ last_call' = NoCall
    /\ called' = FALSE
    /\ session' = "none"
    /\ error' = "none"
    /\ fail_kinds' = {}
    /\ UNCHANGED policy

\* The browser session of the attempt is acquired: INIT -> RUNNING, and the
\* first step asks the policy for an action.
SessionReady ==
    /\ xpc = "init"
    /\ status' = "RUNNING"
    /\ xpc' = "get_action"
    /\ session' = "held"
    /\ UNCHANGED <<policy, attempt_no, current_step, trajectory, last_response_id,
                   last_call_id, op_attempt, pending, last_call, called, prior_set,
                   error, fail_kinds>>

\* The exception raised by call_operator_initial / call_operator_next.
ModelCallError == "Connection error"

\* The exception raised by response.model_dump_json().
SerializeError == "Unable to serialize response"

\* The loop state is maintained after the conversion has returned: a
\* conversion that raises leaves the try block before the update.
UpdatesLoopState_Always(d) == TRUE

UpdatesLoopState(d) == d.ok

\* RuntimeError("Operator returned no computer_call after retries")
NoComputerCallError == "Operator returned no computer_call after retries"

\* A failed attempt stays inside _get_computer_use_action: the loop goes to its
\* next iteration (or the exception leaves the step), and neither the
\* trajectory nor the step counter of the executor is touched.
RetrySameStep_Advance ==
    /\ trajectory' = trajectory
    /\ current_step' = current_step + 1

RetrySameStep == UNCHANGED <<trajectory, current_step>>

\* The exception handler of OperatorCUAPolicy._get_computer_use_action for
\* exception e, with `attempt` already incremented to n: re-raise once
\* n >= max_retries (the exception leaves the step and the attempt ends FATAL
\* with it), otherwise `continue`.
OperatorExcept(n, e) ==
    IF n >= PolicyMaxRetries
      THEN /\ status' = "FATAL"
           /\ error' = e
           /\ xpc' = "exit"
      ELSE /\ xpc' = "get_action"
           /\ UNCHANGED <<status, error>>

\* One iteration of the while loop of
\* OperatorCUAPolicy._get_computer_use_action, with r what the model call
\* gives back.  The loop state is updated before the response is serialized
\* for the log, so an exception raised by model_dump_json() reaches the
\* handler with the new loop state.
OperatorTurn(r) ==
    /\ policy = "operator"
    /\ xpc = "get_action"
    /\ (r.kind = "empty" => op_attempt + 1 < MaxCallsPerStep)
    /\ op_attempt' = op_attempt + 1
    /\ called' = TRUE
    /\ last_call' =
          LET c == OperatorCallFor(last_response_id, last_call_id)
          IN  [mode |-> c.mode,
               previous_response_id |-> c.previous_response_id,
               call_id |-> c.call_id,
               stored_response_id |-> last_response_id,
               stored_call_id |-> last_call_id,
               first |-> ~called,
               converted |->
                   /\ r.kind = "object" /\ r.calls # << >>
                   /\ ConvertOpenAIActionToInternal(r.calls[1].action).ok,
               thought |-> FALSE]
    /\ IF r.kind = "raise"
         THEN /\ OperatorExcept(op_attempt + 1, ModelCallError)
              /\ RetrySameStep
              /\ fail_kinds' = fail_kinds \cup {"raise"}
              /\ UNCHANGED <<last_response_id, last_call_id, pending>>
       ELSE IF r.kind = "empty"
         THEN /\ fail_kinds' = fail_kinds \cup {"empty"}
              /\ RetrySameStep
              /\ UNCHANGED <<status, error, xpc, last_response_id, last_call_id,
                             pending>>
       ELSE IF r.calls = << >>
         THEN /\ OperatorExcept(op_attempt + 1, NoComputerCallError)
              /\ RetrySameStep
              /\ fail_kinds' = fail_kinds \cup {"no_call"}
              /\ UNCHANGED <<last_response_id, last_call_id, pending>>
       ELSE LET computer_call == r.calls[1]
                d == ConvertOpenAIActionToInternal(computer_call.action)
            IN  /\ last_response_id' =
                      IF UpdatesLoopState(d) THEN GetAttr(r.id, last_response_id)
                      ELSE last_response_id
                /\ last_call_id' =
                      IF UpdatesLoopState(d)
                        THEN GetAttr(computer_call.call_id, last_call_id)
                        ELSE last_call_id
                /\ IF ~d.ok
                     THEN /\ OperatorExcept(op_attempt + 1, d.error)
                          /\ RetrySameStep
                          /\ fail_kinds' = fail_kinds \cup {"decode"}
                          /\ UNCHANGED pending
                   ELSE IF r.dump_raises
                     THEN /\ OperatorExcept(op_attempt + 1, SerializeError)
                          /\ RetrySameStep
                          /\ fail_kinds' = fail_kinds \cup {"serialize"}
                          /\ UNCHANGED pending
                   ELSE /\ pending' = d.action
                        /\ xpc' = "dispatch"
                        /\ UNCHANGED <<status, error, fail_kinds, trajectory,
                                       current_step>>
    /\ UNCHANGED <<policy, attempt_no, prior_set, session>>

\* What made a turn of CUAPolicy._get_computer_use_action fail: the model call
\* raised, the response was empty, or the response could not be decoded (no
\* Action line, the parser raised, no parsed action).
TextFailKind(r) ==
    IF r.kind = "raise" THEN "raise"
    ELSE IF r.kind = "empty" THEN "empty"
    ELSE "decode"

\* The response on which CUAPolicy._get_computer_use_action returns: not
\* empty, with an Action line, and the parser gives at least one action.  The
\* Thought line is only printed.
TextDecodable_NeedsThought(r) ==
    /\ r.kind = "text" /\ r.thought /\ r.action_line
    /\ ~r.parse_raises /\ Len(r.parsed) > 0

TextDecodable(r) ==
    /\ r.kind = "text" /\ r.action_line
    /\ ~r.parse_raises /\ Len(r.parsed) > 0

\* One iteration of the while loop of CUAPolicy._get_computer_use_action:
\* every failure leads to `continue`, the first parsed action is returned.
UitarsTurn(r) ==
    /\ policy = "uitars"
    /\ xpc = "get_action"
    /\ LET good == TextDecodable(r)
       IN  /\ (~good => op_attempt + 1 < MaxCallsPerStep)
           /\ IF good
                THEN /\ pending' = ConvertParsedToInternal(r.parsed[1])
                     /\ xpc' = "dispatch"
                     /\ UNCHANGED <<fail_kinds, trajectory, current_step>>
                ELSE /\ fail_kinds' = fail_kinds \cup {TextFailKind(r)}
                     /\ RetrySameStep
                     /\ UNCHANGED <<pending, xpc>>
    /\ op_attempt' = op_attempt + 1
    /\ called' = TRUE
    /\ last_call' = [NoCall EXCEPT !.mode = "stateless", !.first = ~called,
                                   !.converted = (r.kind = "text" /\ r.action_line
                                       /\ ~r.parse_raises /\ Len(r.parsed) > 0),
                                   !.thought = (TextDecodable(r) /\ r.thought)]
    /\ UNCHANGED <<policy, status, attempt_no, last_response_id, last_call_id,
                   prior_set, session, error>>

\* The executor dispatches the action to the browser session, appends the
\* step with its result, advances the step counter and decides whether the
\* attempt goes on.
Dispatch(success) ==
    /\ xpc = "dispatch"
    /\ trajectory' = Append(trajectory, [action |-> pending, success |-> success])
    /\ current_step' = current_step + 1
    /\ status' = StepOutcome(pending, current_step + 1)
    /\ xpc' = IF StepOutcome(pending, current_step + 1) = "RUNNING"
                THEN "get_action" ELSE "exit"
    /\ op_attempt' = 0
    /\ pending' = NoAction
    /\ last_call' = NoCall
    /\ fail_kinds' = {}
    /\ UNCHANGED <<policy, attempt_no, last_response_id, last_call_id,
                   called, prior_set, session, error>>

\* What becomes of the attempt's browser session on exit from the loop.
SessionAfterExit_KeptOnFatal(st) == IF st = "FATAL" THEN "held" ELSE "released"

SessionAfterExit(st) == "released"

\* On exit, in whichever terminal state, the executor releases the browser
\* session and the attempt's result is final.
ReleaseSession ==
    /\ xpc = "exit"
    /\ session' = SessionAfterExit(status)
    /\ xpc' = "idle"
    /\ UNCHANGED <<policy, status, attempt_no, current_step, trajectory,
                   last_response_id, last_call_id, op_attempt, pending, last_call,
                   called, prior_set, error, fail_kinds>>

NextExec ==
    \/ ExecuteTask /\ UNCHANGED <<poolVars, capVars, gwVars, runVars, attVars, timeoutVars, decodeVars, promptVars, verifyVars, rescaleVars>>
    \/ SessionReady /\ UNCHANGED <<poolVars, capVars, gwVars, runVars, attVars, timeoutVars, decodeVars, promptVars, verifyVars, rescaleVars>>
    \/ \E r \in OperatorResponses : OperatorTurn(r) /\ UNCHANGED <<poolVars, capVars, gwVars, runVars, attVars, timeoutVars, decodeVars, promptVars, verifyVars, rescaleVars>>
    \/ \E r \in TextResponses : UitarsTurn(r) /\ UNCHANGED <<poolVars, capVars, gwVars, runVars, attVars, timeoutVars, decodeVars, promptVars, verifyVars, rescaleVars>>
    \/ \E ok \in BOOLEAN : Dispatch(ok) /\ UNCHANGED <<poolVars, capVars, gwVars, runVars, attVars, timeoutVars, decodeVars, promptVars, verifyVars, rescaleVars>>
    \/ ReleaseSession /\ UNCHANGED <<poolVars, capVars, gwVars, runVars, attVars, timeoutVars, decodeVars, promptVars, verifyVars, rescaleVars>>

SpecExec == InitExec /\ [][NextExec]_vars

\* Whether the trajectory holds a terminate action anywhere.
HasTerminate ==
    \E i \in 1 .. Len(trajectory) : trajectory[i].action.action = "terminate"

\* C7: every model call of the operator policy made with a stored response id
\* is a call_operator_next carrying the stored response id and call id, and
\* every call made without one is a call_operator_initial; retries included.
C7_CallModeFollowsState ==
    (policy = "operator" /\ last_call.mode # "none") =>
        IF last_call.stored_response_id # "None"
          THEN /\ last_call.mode = "next"
               /\ last_call.previous_response_id = last_call.stored_response_id
               /\ last_call.call_id = last_call.stored_call_id
          ELSE last_call.mode = "initial"

\* C7 witness: a retry inside a step (not the first call of the step) made in
\* continuation mode.
C7_Witness ==
    /\ policy = "operator"
    /\ op_attempt >= 2
    /\ last_call.mode = "next"
    /\ last_call.stored_call_id # "None"

\* C8: an attempt of an OperatorCUAPolicy makes no model call before its
\* continuation state is cleared, so its first call is an initial call.
C8_FirstCallIsInitial ==
    policy = "operator" =>
        /\ (attempt_no > 0 /\ ~called)
              => (last_response_id = "None" /\ last_call_id = "None")
        /\ last_call.first
              => /\ last_call.mode = "initial"
                 /\ last_call.stored_response_id = "None"
                 /\ last_call.stored_call_id = "None"

\* C8 witness: the first call of a later attempt on a policy object whose
\* earlier attempt left continuation state behind.
C8_Witness ==
    /\ policy = "operator"
    /\ attempt_no >= 2
    /\ prior_set
    /\ last_call.first
    /\ last_call.mode = "initial"

\* C9: the attempt is COMPLETED exactly when the step just appended holds a
\* terminate action, which is then the last step of the trajectory, also when
\* it is decoded on the last allowed step.
C9_CompletedIffTerminate ==
    /\ (status = "COMPLETED")
          = ( /\ Len(trajectory) > 0
              /\ trajectory[Len(trajectory)].action.action = "terminate" )
    /\ \A i \in 1 .. Len(trajectory) - 1 :
          trajectory[i].action.action # "terminate"
    /\ (Len(trajectory) = 1 /\ HasTerminate) => status = "COMPLETED"

\* C9 witness: terminate decoded on the last allowed step.
C9_Witness ==
    /\ status = "COMPLETED"
    /\ Len(trajectory) = MaxSteps

\* C10: the trajectory never holds more than max_steps steps; an attempt that
\* ended without a terminate action and without a fatal error ended in
\* MAX_STEPS, with exactly max_steps steps.
C10_MaxStepsExact ==
    /\ Len(trajectory) <= MaxSteps
    /\ current_step = Len(trajectory)
    /\ status = "RUNNING" => Len(trajectory) < MaxSteps
    /\ status = "MAX_STEPS" => (Len(trajectory) = MaxSteps /\ ~HasTerminate)
    /\ (xpc = "idle" /\ attempt_no > 0 /\ status # "FATAL" /\ ~HasTerminate)
          => status = "MAX_STEPS"

\* C10 witness: an attempt that ended in MAX_STEPS.
C10_Witness ==
    /\ status = "MAX_STEPS"
    /\ xpc = "idle"
    /\ Len(trajectory) = MaxSteps

Terminal == {"COMPLETED", "MAX_STEPS", "FATAL"}

\* C11: when all max_retries model calls of one step of the operator policy
\* have raised, the attempt is FATAL with that error recorded; every
\* FATAL attempt has an error recorded; and every ended attempt, whatever its
\* terminal state, has released its browser session, which is held only while
\* the attempt runs.
C11_FatalRecordedAndReleased ==
    /\ ( /\ policy = "operator" /\ fail_kinds = {"raise"}
          /\ op_attempt >= PolicyMaxRetries /\ xpc # "dispatch" )
          => (status = "FATAL" /\ error = ModelCallError)
    /\ status = "FATAL" => (error # "none" /\ xpc \in {"exit", "idle"})
    /\ (xpc = "idle" /\ attempt_no > 0)
          => (status \in Terminal /\ session = "released")
    /\ session = "held" => xpc \in {"get_action", "dispatch", "exit"}

\* C11 witness: an attempt that had made progress ended FATAL on model call
\* errors alone and has released its session.
C11_Witness ==
    /\ status = "FATAL" /\ error = ModelCallError
    /\ fail_kinds = {"raise"}
    /\ Len(trajectory) > 0
    /\ xpc = "idle" /\ session = "released"

\* C12 (as claimed): one step of the operator policy makes at most 5 model
\* calls.
C12_AtMostFiveCalls ==
    policy = "operator" => op_attempt <= PolicyMaxRetries

\* C13 (as claimed): an attempt never ends FATAL on a step whose failed turns
\* were all undecodable responses (an action that does not convert, or no
\* computer_call in the response).
C13_DecodeNeverFatal ==
    status = "FATAL" => ~(fail_kinds \subseteq {"decode", "no_call"})

\* A turn of _get_computer_use_action that gave no action: a model call was
\* made and the step did not go on to the dispatch.
FailedTurn ==
    /\ xpc = "get_action"
    /\ op_attempt' = op_attempt + 1
    /\ xpc' # "dispatch"

\* C32: a failed decode attempt (empty response, no action line or no
\* computer_call, an action that does not convert, a raised error) appends
\* nothing to the trajectory and does not advance the step counter; when the
\* step goes on, it goes on with another model call of the same step and the
\* attempt is still RUNNING.
C32_FailedAttemptRecordsNothing ==
    [][FailedTurn =>
          /\ trajectory' = trajectory
          /\ current_step' = current_step
          /\ pending' = pending
          /\ (xpc' = "get_action" => status' = status)]_vars

\* After one recorded step, a turn of the second step has failed on an
\* undecodable response and the step is being retried.
C32_Witness ==
    /\ xpc = "get_action"
    /\ "decode" \in fail_kinds
    /\ op_attempt >= 1
    /\ Len(trajectory) = 1
    /\ current_step = 1

\* Either stored id differs after the step.
IdsChange ==
    \/ last_response_id' # last_response_id
    \/ last_call_id' # last_call_id

\* C33: the stored response id and call id change only in a model turn whose
\* response holds a computer_call with an action that converts (and in the
\* reset of execute_task): a turn with an empty response, no computer_call,
\* a conversion failure or a raising model call leaves both as they were.
C33_StateChangesOnSuccessOnly ==
    [][(policy = "operator" /\ IdsChange) =>
          \/ xpc = "idle"
          \/ /\ xpc = "get_action"
             /\ op_attempt' = op_attempt + 1
             /\ last_call'.converted]_vars

\* A continuation call has failed and the stored ids are still the ones the
\* call was made with.
C33_Witness ==
    /\ policy = "operator"
    /\ xpc = "get_action"
    /\ fail_kinds # {}
    /\ ~last_call.converted
    /\ last_call.mode = "next"
    /\ last_response_id = last_call.stored_response_id
    /\ last_call_id = last_call.stored_call_id
    /\ last_call_id # "None"

\* C36 (as claimed): whenever the loop state is set, the stored response id
\* and the stored call id were taken from the same model response.
C36_IdsFromSameResponse ==
    (policy = "operator" /\ last_response_id # "None") =>
        <<last_response_id, last_call_id>> \in IdsOfOneResponse

\* C34: a turn of the text-grammar policy goes on to the dispatch exactly when
\* the response has an Action line and the parser gave an action, with or
\* without a Thought line; every other turn (empty response, no Action line,
\* no parsed action, an exception) is followed by another model call of the
\* same step, whatever the number of calls made, and the attempt never ends
\* with an error raised by the policy.
C34_TextPolicyRetriesForever ==
    [][(policy = "uitars" /\ xpc = "get_action" /\ op_attempt' = op_attempt + 1) =>
          IF last_call'.converted
            THEN xpc' = "dispatch"
            ELSE /\ xpc' = "get_action"
                 /\ status' = "RUNNING"
                 /\ error' = "none"]_vars

\* The text-grammar policy returns an action from a response without a
\* Thought line on a call beyond the retry ceiling of the operator policy,
\* after an exception, an empty response and an undecodable response.
C34_Witness ==
    /\ policy = "uitars"
    /\ xpc = "dispatch"
    /\ op_attempt > PolicyMaxRetries
    /\ fail_kinds = {"raise", "empty", "decode"}
    /\ ~last_call.thought
    /\ status = "RUNNING"

(***************************************************************************)
(* Scheduler                                                               *)
(***************************************************************************)

\* The app list holds the apps 1 .. NumApps.
NumApps == 2

\* The largest max_concurrent a runner is constructed with.
MaxConcurrent == 2

\* The `models` and `apps` arguments of run_parallel_tasks.
ModelList == <<"gpt", "qwen">>

AppList == [i \in 1 .. NumApps |-> i]

Pair(m, a) == [model |-> m, app |-> a]

\* The valid_combinations argument: None, an empty list, or a list naming the
\* first and the last pair and a pair that is not in models x apps.
ValidOptions ==
    { [restricted |-> FALSE, pairs |-> {}],
      [restricted |-> TRUE, pairs |-> {}],
      [restricted |-> TRUE,
       pairs |-> {Pair("gpt", 1), Pair("qwen", NumApps), Pair("gpt", 0)}] }

\* What a task function does: it returns a dict with a true `success`, a dict
\* without one, or it raises an Exception.
Outcomes == {"success", "failure", "raise"}

\* str(e) of the exception of a task function.
TaskError == "task failed"

\* A semaphore attribute that is None.
NoSemaphore == -1

\* `asyncio.Semaphore(x) if arg else None`
MakeSemaphore(arg) == IF arg # 0 THEN arg ELSE NoSemaphore

\* `arg or max_concurrent`
OrDefault(arg, default) == IF arg # 0 THEN arg ELSE default

\* _get_model_semaphore: `return self.semaphore`
GetModelSemaphore_ByKind(model_name) ==
    IF model_name = "gpt"
      THEN (IF semaphores.api # NoSemaphore THEN "api" ELSE "default")
      ELSE (IF semaphores.local # NoSemaphore THEN "local" ELSE "default")

GetModelSemaphore(model_name) == "default"

\* `if valid_combinations is not None: if (model_name, app_name) not in
\* valid_combinations: continue`
IsScheduled_All(valid, m, a) == TRUE

IsScheduled(valid, m, a) == valid.restricted => Pair(m, a) \in valid.pairs

\* The nested loops of run_parallel_tasks from position (mi, ai) on: the pairs
\* for which a task is created, models outer, apps inner.
RECURSIVE CreateTasks(_, _, _)
CreateTasks(valid, mi, ai) ==
    IF mi > Len(ModelList) THEN << >>
    ELSE IF ai > Len(AppList) THEN CreateTasks(valid, mi + 1, 1)
    ELSE (IF IsScheduled(valid, ModelList[mi], AppList[ai])
            THEN <<Pair(ModelList[mi], AppList[ai])>>
            ELSE << >>) \o CreateTasks(valid, mi, ai + 1)

\* The try/except of _run_single_task around a task function with outcome o:
\* the dict is returned as it is; an Exception becomes an error result.
SingleTaskResult_Propagates(o) ==
    IF o = "success"
      THEN [raised |-> FALSE,
            result |-> [success |-> TRUE, error |-> "none", final |-> TRUE]]
      ELSE [raised |-> TRUE, result |-> NoResult]

SingleTaskResult(o) ==
    [raised |-> FALSE,
     result |->
        IF o = "success" THEN [success |-> TRUE, error |-> "none", final |-> TRUE]
        ELSE IF o = "failure"
          THEN [success |-> FALSE, error |-> "Unknown error", final |-> TRUE]
        ELSE [success |-> FALSE, error |-> TaskError, final |-> TRUE]]

\* ParallelRunner.__init__ with its three arguments (0 stands for None).
InitRun ==
    /\ PoolStart /\ GwIdle /\ policy = "none" /\ ExecIdle /\ AttIdle /\ TimeoutIdle /\ DecodeIdle /\ PromptIdle /\ VerifyIdle /\ RescaleIdle
    /\ max_concurrent \in 1 .. MaxConcurrent
    /\ \E api_arg \in {0, MaxConcurrent}, local_arg \in {0, 1} :
          /\ api_max_concurrent = OrDefault(api_arg, max_concurrent)
          /\ local_max_concurrent = OrDefault(local_arg, max_concurrent)
          /\ semaphores = [default |-> max_concurrent,
                           api |-> MakeSemaphore(api_arg),
                           local |-> MakeSemaphore(local_arg)]
    /\ valid_combinations \in ValidOptions
    /\ is_coroutine \in BOOLEAN
    /\ tasks = << >>
    /\ tpc = << >>
    /\ outcome = << >>
    /\ task_result = << >>
    /\ runs = << >>
    /\ results = << >>
    /\ main_pc = "idle"
    /\ summary = NoSummary

\* run_parallel_tasks up to its first `await task`: one task is created per
\* scheduled pair; none of them has run yet.
RunParallelTasks ==
    /\ main_pc = "idle"
    /\ tasks' = CreateTasks(valid_combinations, 1, 1)
    /\ tpc' = [i \in 1 .. Len(tasks') |-> "created"]
    /\ outcome' = [i \in 1 .. Len(tasks') |-> "none"]
    /\ task_result' = [i \in 1 .. Len(tasks') |-> NoResult]
    /\ runs' = [i \in 1 .. Len(tasks') |-> 0]
    /\ main_pc' = IF Len(tasks') = 0 THEN "collected" ELSE "awaiting"
    /\ UNCHANGED <<max_concurrent, api_max_concurrent, local_max_concurrent,
                   semaphores, valid_combinations, is_coroutine, results, summary>>

\* The task function of task i ends with outcome o: _run_single_task returns
\* its result (or lets the exception through) and `async with` gives the
\* permit of semaphore `sem` back.
Finish_KeepsPermit(i, o, sem) ==
    /\ outcome' = [outcome EXCEPT ![i] = o]
    /\ task_result' = [task_result EXCEPT ![i] = SingleTaskResult(o).result]
    /\ tpc' = [tpc EXCEPT ![i] = IF SingleTaskResult(o).raised THEN "raised" ELSE "done"]
    /\ UNCHANGED semaphores

Finish(i, o, sem) ==
    /\ outcome' = [outcome EXCEPT ![i] = o]
    /\ task_result' = [task_result EXCEPT ![i] = SingleTaskResult(o).result]
    /\ tpc' = [tpc EXCEPT ![i] = IF SingleTaskResult(o).raised THEN "raised" ELSE "done"]
    /\ semaphores' = [semaphores EXCEPT ![sem] = @ + 1]

\* _run_single_task with a permit of its semaphore: the task function is
\* invoked; a coroutine function is awaited, a plain function runs to its end
\* (outcome o) at once.
Admit(i, o) ==
    LET sem == GetModelSemaphore(tasks[i].model) IN
    /\ semaphores[sem] > 0
    /\ runs' = [runs EXCEPT ![i] = @ + 1]
    /\ IF is_coroutine
         THEN /\ semaphores' = [semaphores EXCEPT ![sem] = @ - 1]
              /\ tpc' = [tpc EXCEPT ![i] = "running"]
              /\ UNCHANGED <<outcome, task_result>>
         ELSE /\ outcome' = [outcome EXCEPT ![i] = o]
              /\ task_result' = [task_result EXCEPT ![i] = SingleTaskResult(o).result]
              /\ tpc' = [tpc EXCEPT ![i] =
                            IF SingleTaskResult(o).raised THEN "raised" ELSE "done"]
              /\ UNCHANGED semaphores

\* The event loop runs task i for the first time (tasks first run in creation
\* order): `async with semaphore` is entered, or the task waits for a permit.
TaskStart(i, o) ==
    /\ main_pc = "awaiting"
    /\ i \in 1 .. Len(tasks)
    /\ tpc[i] = "created"
    /\ \A j \in 1 .. i - 1 : tpc[j] # "created"
    /\ IF semaphores[GetModelSemaphore(tasks[i].model)] > 0
         THEN Admit(i, o)
         ELSE /\ tpc' = [tpc EXCEPT ![i] = "wait"]
              /\ UNCHANGED <<semaphores, outcome, task_result, runs>>
    /\ UNCHANGED <<max_concurrent, api_max_concurrent, local_max_concurrent,
                   valid_combinations, is_coroutine, tasks, results, main_pc, summary>>

\* A task waiting for a permit obtains one.
TaskAdmitted(i, o) ==
    /\ i \in 1 .. Len(tasks)
    /\ tpc[i] = "wait"
    /\ Admit(i, o)
    /\ UNCHANGED <<max_concurrent, api_max_concurrent, local_max_concurrent,
                   valid_combinations, is_coroutine, tasks, results, main_pc, summary>>

\* The awaited task function of task i ends with outcome o.
TaskFuncEnds(i, o) ==
    /\ i \in 1 .. Len(tasks)
    /\ tpc[i] = "running"
    /\ Finish(i, o, GetModelSemaphore(tasks[i].model))
    /\ UNCHANGED <<max_concurrent, api_max_concurrent, local_max_concurrent,
                   valid_combinations, is_coroutine, tasks, runs, results, main_pc,
                   summary>>

\* The entries that `for ... : result = await task; results.append(...)` adds
\* from task i on without being suspended: those of the tasks already done.
RECURSIVE Collected(_)
Collected(i) ==
    IF i > Len(tasks) \/ tpc[i] # "done" THEN << >>
    ELSE <<[model |-> tasks[i].model, app |-> tasks[i].app,
            result |-> task_result[i]]>> \o Collected(i + 1)

\* run_parallel_tasks resumes at `await task`: the awaited task has ended.
\* Its result and those of the following finished tasks are appended; an
\* exception of the awaited task is raised out of run_parallel_tasks.
Collect ==
    /\ main_pc = "awaiting"
    /\ LET i == Len(results) + 1 IN
         /\ tpc[i] \in {"done", "raised"}
         /\ IF tpc[i] = "raised"
              THEN /\ main_pc' = "raised"
                   /\ UNCHANGED results
              ELSE /\ results' = results \o Collected(i)
                   /\ main_pc' = IF Len(results') = Len(tasks)
                                    THEN "collected" ELSE "awaiting"
    /\ UNCHANGED <<max_concurrent, api_max_concurrent, local_max_concurrent,
                   semaphores, valid_combinations, is_coroutine, tasks, tpc, outcome,
                   task_result, runs, summary>>

\* `len([r for r in results if r['result'].get('success')])`
SuccessfulCount(rs) == Cardinality({ i \in 1 .. Len(rs) : rs[i].result.success })

\* The progress display is stopped and the summary is built and returned.
Summarize ==
    /\ main_pc = "collected"
    /\ summary' = [total_tasks |-> Len(results),
                    successful_tasks |-> SuccessfulCount(results),
                    failed_tasks |-> Len(results) - SuccessfulCount(results),
                    results |-> results,
                    final |-> TRUE]
    /\ main_pc' = "returned"
    /\ UNCHANGED <<max_concurrent, api_max_concurrent, local_max_concurrent,
                   semaphores, valid_combinations, is_coroutine, tasks, tpc, outcome,
                   task_result, runs, results>>

TaskIds == 1 .. (Len(ModelList) * NumApps)

NextRun ==
    \/ RunParallelTasks /\ UNCHANGED <<poolVars, capVars, gwVars, execVars, attVars, timeoutVars, decodeVars, promptVars, verifyVars, rescaleVars>>
    \/ \E i \in TaskIds, o \in Outcomes :
          TaskStart(i, o) /\ UNCHANGED <<poolVars, capVars, gwVars, execVars, attVars, timeoutVars, decodeVars, promptVars, verifyVars, rescaleVars>>
    \/ \E i \in TaskIds, o \in Outcomes :
          TaskAdmitted(i, o) /\ UNCHANGED <<poolVars, capVars, gwVars, execVars, attVars, timeoutVars, decodeVars, promptVars, verifyVars, rescaleVars>>
    \/ \E i \in TaskIds, o \in Outcomes :
          TaskFuncEnds(i, o) /\ UNCHANGED <<poolVars, capVars, gwVars, execVars, attVars, timeoutVars, decodeVars, promptVars, verifyVars, rescaleVars>>
    \/ Collect /\ UNCHANGED <<poolVars, capVars, gwVars, execVars, attVars, timeoutVars, decodeVars, promptVars, verifyVars, rescaleVars>>
    \/ Summarize /\ UNCHANGED <<poolVars, capVars, gwVars, execVars, attVars, timeoutVars, decodeVars, promptVars, verifyVars, rescaleVars>>

SpecRun == InitRun /\ [][NextRun]_vars

\* The tasks whose task function is executing.
Running == { i \in 1 .. Len(tasks) : tpc[i] = "running" }

\* The pairs of models x apps that valid_combinations admits.
ExpectedPairs ==
    { p \in { Pair(ModelList[m], AppList[a]) :
                  m \in 1 .. Len(ModelList), a \in 1 .. Len(AppList) } :
        valid_combinations.restricted => p \in valid_combinations.pairs }

\* C14: a task function that raises gives an error result (success = False and
\* the message) instead of an exception: no task ends by an exception,
\* run_parallel_tasks never raises, and when it returns every task has run to
\* its end and the summary holds the result of every task, in creation order.
C14_FailureIsolated ==
    /\ \A i \in 1 .. Len(tasks) :
          /\ tpc[i] # "raised"
          /\ outcome[i] = "raise"
                => /\ tpc[i] = "done"
                   /\ task_result[i] =
                        [success |-> FALSE, error |-> TaskError, final |-> TRUE]
    /\ main_pc # "raised"
    /\ main_pc = "returned"
          => /\ summary.final
             /\ Len(summary.results) = Len(tasks)
             /\ \A i \in 1 .. Len(tasks) :
                   /\ tpc[i] = "done"
                   /\ summary.results[i] =
                        [model |-> tasks[i].model, app |-> tasks[i].app,
                         result |-> task_result[i]]

\* C14 witness: a run has returned in which a task function raised while a
\* task created after it was executing, and that later task succeeded.
C14_Witness ==
    /\ main_pc = "returned"
    /\ is_coroutine
    /\ \E i, j \in 1 .. Len(tasks) :
          /\ i < j
          /\ outcome[i] = "raise"
          /\ outcome[j] = "success"
          /\ summary.results[j].result.success

C16_OncePerPair ==
    /\ \A i \in 1 .. Len(tasks) : runs[i] <= 1
    /\ main_pc # "idle"
          => /\ Len(tasks) = Cardinality(ExpectedPairs)
             /\ { tasks[i] : i \in 1 .. Len(tasks) } = ExpectedPairs
    /\ main_pc = "returned"
          => /\ \A i \in 1 .. Len(tasks) : runs[i] = 1
             /\ Len(summary.results) = Cardinality(ExpectedPairs)
             /\ { Pair(summary.results[i].model, summary.results[i].app) :
                     i \in 1 .. Len(summary.results) } = ExpectedPairs
             /\ summary.total_tasks = Cardinality(ExpectedPairs)
             /\ summary.total_tasks = summary.successful_tasks + summary.failed_tasks
             /\ summary.successful_tasks =
                   Cardinality({ i \in 1 .. Len(tasks) : outcome[i] = "success" })

\* C16 witness: a restricted run has returned with a success and a failure.
C16_Witness ==
    /\ main_pc = "returned"
    /\ valid_combinations.restricted
    /\ summary.total_tasks = 2
    /\ summary.successful_tasks = 1
    /\ summary.failed_tasks = 1

\* The scheduler under the scheduling of the event loop: a task that is ready
\* is run, a waiter is woken when a permit is free, and every task function
\* that was started ends.  The runner is constructed without the two
\* per-kind limits, which _get_model_semaphore does not read.
InitRunLive ==
    /\ InitRun
    /\ semaphores.api = NoSemaphore
    /\ semaphores.local = NoSemaphore

\* How the task functions of these runs end: by returning or by raising.
LiveOutcomes == {"success", "raise"}

NextRunLive ==
    \/ RunParallelTasks /\ UNCHANGED <<poolVars, capVars, gwVars, execVars, attVars, timeoutVars, decodeVars, promptVars, verifyVars, rescaleVars>>
    \/ \E i \in TaskIds, o \in LiveOutcomes :
          TaskStart(i, o) /\ UNCHANGED <<poolVars, capVars, gwVars, execVars, attVars, timeoutVars, decodeVars, promptVars, verifyVars, rescaleVars>>
    \/ \E i \in TaskIds, o \in LiveOutcomes :
          TaskAdmitted(i, o) /\ UNCHANGED <<poolVars, capVars, gwVars, execVars, attVars, timeoutVars, decodeVars, promptVars, verifyVars, rescaleVars>>
    \/ \E i \in TaskIds, o \in LiveOutcomes :
          TaskFuncEnds(i, o) /\ UNCHANGED <<poolVars, capVars, gwVars, execVars, attVars, timeoutVars, decodeVars, promptVars, verifyVars, rescaleVars>>
    \/ Collect /\ UNCHANGED <<poolVars, capVars, gwVars, execVars, attVars, timeoutVars, decodeVars, promptVars, verifyVars, rescaleVars>>
    \/ Summarize /\ UNCHANGED <<poolVars, capVars, gwVars, execVars, attVars, timeoutVars, decodeVars, promptVars, verifyVars, rescaleVars>>

SpecRunLive == InitRunLive /\ [][NextRunLive]_vars /\ WF_vars(NextRunLive)

\* run_parallel_tasks has returned: every task has run once and ended, every
\* permit is back, and the results list the pairs in the order in which the
\* tasks were created.
ReturnedAllDone ==
    /\ main_pc = "returned"
    /\ semaphores.default = max_concurrent
    /\ \A i \in 1 .. Len(tasks) : tpc[i] = "done" /\ runs[i] = 1
    /\ tasks = CreateTasks(valid_combinations, 1, 1)
    /\ Len(results) = Len(tasks)
    /\ \A i \in 1 .. Len(tasks) :
          /\ results[i].model = tasks[i].model
          /\ results[i].app = tasks[i].app
          /\ results[i].result = task_result[i]

\* C39: when every task function ends, by returning or by raising, a call of
\* run_parallel_tasks leads to its return with every scheduled pair admitted
\* once and finished, all max_concurrent permits free and the results in
\* creation order.
C39_EveryTaskFinishes ==
    (main_pc \in {"awaiting", "collected"}) ~> ReturnedAllDone

\* A runner with one slot has returned from a run of coroutine tasks for
\* every pair, one of which raised: the tasks had to wait for the slot.
C39_Witness ==
    /\ ReturnedAllDone
    /\ is_coroutine
    /\ max_concurrent = 1
    /\ Len(tasks) = Len(ModelList) * NumApps
    /\ \E i \in 1 .. Len(tasks) : outcome[i] = "raise"

(***************************************************************************)
(* Browser pool: reuse, capacity and eviction                              *)
(***************************************************************************)

\* Capture call c inspects the idle list in this step (acquire, under the lock).
Inspects(c) ==
    /\ cpc[c] \in {"idle", "get_lock"}
    /\ cpc'[c] \notin {"idle", "get_lock"}

\* Capture call c makes the capacity check of release in this step.
ChecksCapacity(c) ==
    /\ cpc[c] \in {"holding", "ret_lock"}
    /\ cpc'[c] \in {"done", "closing"}

\* C17: a release made while the idle list is below capacity appends the
\* session to the idle list; an acquire that finds the idle list non-empty
\* takes its session from there, takes no permit and starts no browser, and
\* one that starts a browser (or waits for a permit) found the list empty.
C17_ReuseBeforeCreate ==
    [][ \A c \in Callers :
          /\ (ChecksCapacity(c) /\ Len(browser_pool) < PoolCapacity)
                => /\ browser_pool' = Append(browser_pool, browser[c])
                   /\ Len(browser_pool') > 0
          /\ (Inspects(c) /\ Len(browser_pool) > 0)
                => /\ cpc'[c] = "holding"
                   /\ browser'[c] = browser_pool[Len(browser_pool)]
                   /\ Len(browser_pool') = Len(browser_pool) - 1
                   /\ browser_semaphore' = browser_semaphore
          /\ (Inspects(c) /\ cpc'[c] \in {"starting", "get_sem"})
                => browser_pool = << >> ]_vars

\* C17 witness: a call holds a session that another call started and
\* released, while no browser is being started and nobody waits.
C17_Witness ==
    /\ browser_semaphore = SemaphorePermits
    /\ \A d \in Callers : cpc[d] \in {"idle", "holding", "done"}
    /\ \E c \in Callers :
          /\ cpc[c] = "holding"
          /\ browser[c] # c
          /\ cpc[browser[c]] = "done"

\* C18: the idle list never holds more than 3 sessions; release appends the
\* session exactly when the list holds fewer than 3, and otherwise closes the
\* session and leaves the list as it is.
C18_PoolWithinCapacity ==
    /\ [](Len(browser_pool) <= PoolCapacity)
    /\ [][ \A c \in Callers :
             /\ ChecksCapacity(c)
                   => IF Len(browser_pool) < PoolCapacity
                        THEN /\ browser_pool' = Append(browser_pool, browser[c])
                             /\ cpc'[c] = "done"
                             /\ closed' = closed
                        ELSE /\ browser_pool' = browser_pool
                             /\ cpc'[c] = "closing"
             /\ (cpc[c] = "closing" /\ cpc'[c] # "closing")
                   => /\ browser_pool' = browser_pool
                      /\ browser[c] \in closed' ]_vars

\* C18 witness: the idle list is full and a further session has been closed.
C18_Witness ==
    /\ Len(browser_pool) = PoolCapacity
    /\ closed # {}
    /\ pool_lock = 0

\* The calls whose `await browser.start()` is in progress.
Starting == { c \in Callers : cpc[c] = "starting" }

CaptureError == "navigation failed"

CloseError == "close failed"

StartError == "start failed"

\* `try: await browser.close() except: pass`: what _return_browser_to_pool
\* raises when close raised e.
ReleaseRaises_Propagates(e) == e

ReleaseRaises(e) == "none"

\* try/finally of _capture_version_screenshot: how the call ends when its try
\* body raised `body` ("none": it returned) and the finally clause raised
\* `fin` ("none": it did not).
CallEnd(body, fin) ==
    IF fin # "none" THEN fin
    ELSE IF body # "none" THEN body
    ELSE "returned"

\* The call of c has ended in this step, its release having raised `fin`.
EndsWith(c, e, fin) ==
    ended' = IF cpc'[c] = "done"
               THEN [ended EXCEPT ![c] = CallEnd(e, fin)]
               ELSE ended

InitCapture == PoolStart /\ GwIdle /\ policy = "none" /\ ExecIdle /\ RunIdle /\ AttIdle /\ TimeoutIdle /\ DecodeIdle /\ PromptIdle /\ VerifyIdle /\ RescaleIdle

\* A capture call starts.  The runs that follow each call to its end have as
\* many capture calls as _browser_semaphore has permits, so none of them ever
\* waits for a permit.
CaptureCall(c) ==
    /\ c <= SemaphorePermits
    /\ Call(c)
    /\ UNCHANGED capVars

\* `await browser.start()` raises: acquire raises, outside the try.
StartRaises(c) ==
    /\ StartFail(c)
    /\ ended' = [ended EXCEPT ![c] = StartError]
    /\ UNCHANGED <<exc, close_raised>>

\* The try body returns, and the finally clause releases the session.
BodyReturns(c) ==
    /\ CaptureBodyEnds(c)
    /\ EndsWith(c, "none", "none")
    /\ UNCHANGED <<exc, close_raised>>

\* The try body raises, and the finally clause releases the session.
BodyRaises(c) ==
    /\ CaptureBodyEnds(c)
    /\ exc' = [exc EXCEPT ![c] = CaptureError]
    /\ EndsWith(c, CaptureError, "none")
    /\ UNCHANGED close_raised

\* The release waiting for _pool_lock obtains it.
ReleaseProceeds(c) ==
    /\ ReturnBrowserToPool(c)
    /\ EndsWith(c, exc[c], "none")
    /\ UNCHANGED <<exc, close_raised>>

\* `await browser.close()` returns.
CloseReturns(c) ==
    /\ CloseDone(c)
    /\ EndsWith(c, exc[c], "none")
    /\ UNCHANGED <<exc, close_raised>>

\* `await browser.close()` raises.
CloseRaises(c) ==
    /\ CloseDone(c)
    /\ close_raised' = close_raised \cup {c}
    /\ EndsWith(c, exc[c], ReleaseRaises(CloseError))
    /\ UNCHANGED exc

NextCapture ==
    \/ \E c \in Callers : CaptureCall(c) /\ UNCHANGED <<gwVars, execVars, runVars, attVars, timeoutVars, decodeVars, promptVars, verifyVars, rescaleVars>>
    \/ \E c \in Callers :
          GetBrowserFromPool(c) /\ UNCHANGED <<capVars, gwVars, execVars, runVars, attVars, timeoutVars, decodeVars, promptVars, verifyVars, rescaleVars>>
    \/ \E c \in Callers :
          StartDone(c) /\ UNCHANGED <<capVars, gwVars, execVars, runVars, attVars, timeoutVars, decodeVars, promptVars, verifyVars, rescaleVars>>
    \/ \E c \in Callers : StartRaises(c) /\ UNCHANGED <<gwVars, execVars, runVars, attVars, timeoutVars, decodeVars, promptVars, verifyVars, rescaleVars>>
    \/ \E c \in Callers : BodyReturns(c) /\ UNCHANGED <<gwVars, execVars, runVars, attVars, timeoutVars, decodeVars, promptVars, verifyVars, rescaleVars>>
    \/ \E c \in Callers : BodyRaises(c) /\ UNCHANGED <<gwVars, execVars, runVars, attVars, timeoutVars, decodeVars, promptVars, verifyVars, rescaleVars>>
    \/ \E c \in Callers : ReleaseProceeds(c) /\ UNCHANGED <<gwVars, execVars, runVars, attVars, timeoutVars, decodeVars, promptVars, verifyVars, rescaleVars>>
    \/ \E c \in Callers : CloseReturns(c) /\ UNCHANGED <<gwVars, execVars, runVars, attVars, timeoutVars, decodeVars, promptVars, verifyVars, rescaleVars>>
    \/ \E c \in Callers : CloseRaises(c) /\ UNCHANGED <<gwVars, execVars, runVars, attVars, timeoutVars, decodeVars, promptVars, verifyVars, rescaleVars>>

SpecCapture == InitCapture /\ [][NextCapture]_vars

\* C19: when browser.close() raises during an eviction, release raises
\* nothing: the capture call ends as its try body did (it returns, or raises
\* the exception of the body, never that of close), the lock is free again,
\* and the step leaves the idle list as it was.
C19_CloseFailureSwallowed ==
    /\ [](\A c \in close_raised :
             /\ cpc[c] = "done"
             /\ pool_lock # c
             /\ ended[c] # CloseError
             /\ ended[c] = IF exc[c] = "none" THEN "returned" ELSE exc[c])
    /\ [][ \A c \in Callers :
             (c \in close_raised' /\ c \notin close_raised)
                => /\ browser_pool' = browser_pool
                   /\ Len(browser_pool) = PoolCapacity
                   /\ pool_lock = c /\ pool_lock' = 0 ]_vars

\* C19 witness: a capture call whose body raised and whose eviction close
\* raised too has ended with the exception of the body.
C19_Witness ==
    \E c \in close_raised :
        /\ exc[c] = CaptureError
        /\ ended[c] = CaptureError
        /\ Len(browser_pool) = PoolCapacity

(***************************************************************************)
(* Concurrent attempts and the continuation state of OperatorCUAPolicy     *)
(***************************************************************************)

\* response.id / computer_call.call_id of the n-th response to attempt a: the
\* inference service gives every response and every call an id of its own.
ResponseId(a, n) == <<"resp", a, n>>

CallId(a, n) == <<"call", a, n>>

\* The scheduler runs one executor per (model, task) pair: an attempt is
\* started on a policy object that no running attempt is using.
PolicyAvailable_Always(o) == TRUE

PolicyAvailable(o) ==
    \A b \in Attempts : policy_of[b] = o => apc[b] \in {"idle", "done"}

InitAttempts == PoolStart /\ GwIdle /\ policy = "none" /\ ExecIdle /\ RunIdle /\ AttIdle /\ TimeoutIdle /\ DecodeIdle /\ PromptIdle /\ VerifyIdle /\ RescaleIdle

\* execute_task of attempt a on policy object o: the loop state of the object
\* is reset before the base executor runs.
ExecuteTaskOn(a, o) ==
    /\ apc[a] = "idle"
    /\ PolicyAvailable(o)
    /\ policy_of' = [policy_of EXCEPT ![a] = o]
    /\ obj_response_id' = [obj_response_id EXCEPT ![o] = NoId]
    /\ obj_call_id' = [obj_call_id EXCEPT ![o] = NoId]
    /\ apc' = [apc EXCEPT ![a] = "turn"]
    /\ UNCHANGED <<sent, turns>>

\* _get_computer_use_action up to its await: call_operator_initial when the
\* object has no _last_response_id, call_operator_next with the object's two
\* ids otherwise.
SendModelCall(a) ==
    /\ apc[a] = "turn"
    /\ sent' = [sent EXCEPT ![a] =
                  IF obj_response_id[policy_of[a]] = NoId
                    THEN << >>
                    ELSE <<obj_response_id[policy_of[a]], obj_call_id[policy_of[a]]>>]
    /\ apc' = [apc EXCEPT ![a] = "await"]
    /\ UNCHANGED <<policy_of, obj_response_id, obj_call_id, turns>>

\* The response arrives with a computer_call: the object keeps response.id and
\* call_id, the action is returned; the attempt goes on to its next turn, or
\* ends (terminate action, step ceiling).
ReceiveResponse(a, more) ==
    /\ apc[a] = "await"
    /\ turns[a] < MaxTurns
    /\ turns' = [turns EXCEPT ![a] = turns[a] + 1]
    /\ obj_response_id' = [obj_response_id EXCEPT
                             ![policy_of[a]] = ResponseId(a, turns[a] + 1)]
    /\ obj_call_id' = [obj_call_id EXCEPT
                         ![policy_of[a]] = CallId(a, turns[a] + 1)]
    /\ apc' = [apc EXCEPT ![a] = IF more THEN "turn" ELSE "done"]
    /\ UNCHANGED <<policy_of, sent>>

NextAttempts ==
    \/ \E a \in Attempts, o \in PolicyObjects : ExecuteTaskOn(a, o) /\ UNCHANGED <<poolVars, capVars, gwVars, execVars, runVars, timeoutVars, decodeVars, promptVars, verifyVars, rescaleVars>>
    \/ \E a \in Attempts : SendModelCall(a) /\ UNCHANGED <<poolVars, capVars, gwVars, execVars, runVars, timeoutVars, decodeVars, promptVars, verifyVars, rescaleVars>>
    \/ \E a \in Attempts, more \in BOOLEAN : ReceiveResponse(a, more) /\ UNCHANGED <<poolVars, capVars, gwVars, execVars, runVars, timeoutVars, decodeVars, promptVars, verifyVars, rescaleVars>>

SpecAttempts == InitAttempts /\ [][NextAttempts]_vars

\* C23: an attempt's model call carries the continuation state of that
\* attempt only: an initial call while the attempt has received no response,
\* and otherwise the ids of the attempt's own latest response, never ids
\* produced or cleared by another attempt, whether that one runs
\* concurrently or ran earlier on the same policy object.
C23_OwnContinuationState ==
    \A a \in Attempts :
        /\ apc[a] = "await" =>
              sent[a] = IF turns[a] = 0 THEN << >>
                        ELSE <<ResponseId(a, turns[a]), CallId(a, turns[a])>>
        /\ apc[a] \in {"turn", "await"} =>
              \A b \in Attempts \ {a} :
                  apc[b] \in {"turn", "await"} => policy_of[b] # policy_of[a]

\* C23 witness: two attempts in flight at the same time, each of them in a
\* continuation call.
C23_Witness ==
    \E a, b \in Attempts :
        /\ a # b
        /\ apc[a] = "await" /\ apc[b] = "await"
        /\ turns[a] > 0 /\ turns[b] > 0
        /\ sent[a] # << >> /\ sent[b] # << >>

(***************************************************************************)
(* Screenshot capture under asyncio.wait_for                               *)
(***************************************************************************)

TimeoutError == "TimeoutError"

CancelledError == "CancelledError"

\* asyncio.wait_for: what _safe_capture_screenshot returns or raises once the
\* task of _capture_version_screenshot has ended with e ("returned" or the
\* exception it raised).  A task that ends cancelled gives TimeoutError.
WaitFor(e) == IF e = CancelledError THEN TimeoutError ELSE e

InitSafeCapture == PoolStart /\ GwIdle /\ policy = "none" /\ ExecIdle /\ RunIdle /\ AttIdle /\ TimeoutIdle /\ DecodeIdle /\ PromptIdle /\ VerifyIdle /\ RescaleIdle

\* _safe_capture_screenshot is called: wait_for starts the task.  As many
\* calls run as _browser_semaphore has permits: they wait for _pool_lock, in
\* acquire and in release, and never for a permit.
SafeCaptureCall(c) ==
    /\ CaptureCall(c)
    /\ UNCHANGED timed_out

\* The timeout of wait_for fires while the task of c is suspended: the task
\* is cancelled, CancelledError is raised at the await it is suspended in, and
\* wait_for goes on waiting until the task has ended.
\*  - waiting for _pool_lock or _browser_semaphore in acquire, or in
\*    `await browser.start()`: acquire raises (the permit is given back), the
\*    task ends cancelled;
\*  - in the try body: the finally clause runs _return_browser_to_pool;
\*  - waiting for _pool_lock in _return_browser_to_pool: the release raises,
\*    the session is neither appended nor closed, the task ends cancelled;
\*  - in `await browser.close()`: the bare except swallows CancelledError,
\*    the lock is released and the task ends as its try body ended.
Timeout(c) ==
    /\ c \notin timed_out
    /\ timed_out' = timed_out \cup {c}
    /\ CASE cpc[c] \in {"get_lock", "get_sem"} ->
              /\ cpc' = [cpc EXCEPT ![c] = "failed"]
              /\ ended' = [ended EXCEPT ![c] = CancelledError]
              /\ UNCHANGED <<browser_pool, browser_semaphore, pool_lock, browser,
                             closed, exc, close_raised>>
         [] cpc[c] = "starting" ->
              /\ StartFail(c)
              /\ ended' = [ended EXCEPT ![c] = CancelledError]
              /\ UNCHANGED <<exc, close_raised>>
         [] cpc[c] = "holding" ->
              /\ CaptureBodyEnds(c)
              /\ exc' = [exc EXCEPT ![c] = CancelledError]
              /\ EndsWith(c, CancelledError, "none")
              /\ UNCHANGED close_raised
         [] cpc[c] = "ret_lock" ->
              /\ cpc' = [cpc EXCEPT ![c] = "dropped"]
              /\ ended' = [ended EXCEPT ![c] = CancelledError]
              /\ UNCHANGED <<browser_pool, browser_semaphore, pool_lock, browser,
                             closed, exc, close_raised>>
         [] cpc[c] = "closing" ->
              /\ CloseDone(c)
              /\ close_raised' = close_raised \cup {c}
              /\ EndsWith(c, exc[c], ReleaseRaises(CancelledError))
              /\ UNCHANGED exc
         [] OTHER -> FALSE

NextSafeCapture ==
    \/ \E c \in Callers : SafeCaptureCall(c) /\ UNCHANGED <<gwVars, execVars, runVars, attVars, decodeVars, promptVars, verifyVars, rescaleVars>>
    \/ \E c \in Callers :
          GetBrowserFromPool(c) /\ UNCHANGED <<capVars, timed_out>> /\ UNCHANGED <<gwVars, execVars, runVars, attVars, decodeVars, promptVars, verifyVars, rescaleVars>>
    \/ \E c \in Callers :
          StartDone(c) /\ UNCHANGED <<capVars, timed_out>> /\ UNCHANGED <<gwVars, execVars, runVars, attVars, decodeVars, promptVars, verifyVars, rescaleVars>>
    \/ \E c \in Callers : StartRaises(c) /\ UNCHANGED timed_out /\ UNCHANGED <<gwVars, execVars, runVars, attVars, decodeVars, promptVars, verifyVars, rescaleVars>>
    \/ \E c \in Callers : BodyReturns(c) /\ UNCHANGED timed_out /\ UNCHANGED <<gwVars, execVars, runVars, attVars, decodeVars, promptVars, verifyVars, rescaleVars>>
    \/ \E c \in Callers : BodyRaises(c) /\ UNCHANGED timed_out /\ UNCHANGED <<gwVars, execVars, runVars, attVars, decodeVars, promptVars, verifyVars, rescaleVars>>
    \/ \E c \in Callers : ReleaseProceeds(c) /\ UNCHANGED timed_out /\ UNCHANGED <<gwVars, execVars, runVars, attVars, decodeVars, promptVars, verifyVars, rescaleVars>>
    \/ \E c \in Callers : CloseReturns(c) /\ UNCHANGED timed_out /\ UNCHANGED <<gwVars, execVars, runVars, attVars, decodeVars, promptVars, verifyVars, rescaleVars>>
    \/ \E c \in Callers : CloseRaises(c) /\ UNCHANGED timed_out /\ UNCHANGED <<gwVars, execVars, runVars, attVars, decodeVars, promptVars, verifyVars, rescaleVars>>
    \/ \E c \in Callers : Timeout(c) /\ UNCHANGED <<gwVars, execVars, runVars, attVars, decodeVars, promptVars, verifyVars, rescaleVars>>

SpecSafeCapture == InitSafeCapture /\ [][NextSafeCapture]_vars

\* C24 (as claimed): once the timeout of a _safe_capture_screenshot call has
\* elapsed the call has ended, with the captured screenshot or with an error:
\* it is not left waiting for something that has no timeout.
C24_TimeoutEndsCapture ==
    \A c \in Callers :
        c \in timed_out =>
            WaitFor(ended[c]) \in {"returned", TimeoutError, CaptureError}

\* The calls inside `async with _pool_lock` across a suspension.
LockHolders == { c \in Callers : cpc[c] = "closing" }

\* C35: the idle list changes (pop, append) only in a step that finds the
\* pool lock free and leaves it free, so never while another call is inside
\* the locked section; a call enters the close of a full pool only when the
\* lock is free; at most one call is inside the locked section, it is the
\* one the lock is held by, and a call that has ended, in whichever way,
\* holds the lock no more.
C35_PoolChangesUnderLock ==
    /\ [](/\ Cardinality(LockHolders) <= 1
          /\ \A c \in Callers : (pool_lock = c) <=> (c \in LockHolders)
          /\ pool_lock \in Callers \cup {0})
    /\ [][/\ browser_pool' # browser_pool => (pool_lock = 0 /\ pool_lock' = 0)
          /\ \A c \in Callers :
                (cpc'[c] = "closing" /\ cpc[c] # "closing") => pool_lock = 0]_vars

\* One call holds the lock while it closes the browser a full pool did not
\* take, another call waits for the lock in acquire, and a call that timed out
\* has put its session back and ended.
C35_Witness ==
    /\ Len(browser_pool) = PoolCapacity
    /\ \E c, d \in Callers :
          /\ pool_lock = c
          /\ cpc[d] = "get_lock"
    /\ \E c \in timed_out : cpc[c] = "done"

\* The capture calls that have ended, or were never made.
AllCapturesEnded ==
    \A c \in Callers : cpc[c] \in {"idle", "done", "failed", "dropped"}

\* C37 (as claimed): once all captures have ended, no session is left with
\* the call it was handed to: every session handed out is in the idle list
\* or has been closed.
C37_ReleasedOnEveryPath ==
    AllCapturesEnded =>
        \A c \in Callers : browser[c] = NoBrowser

(***************************************************************************)
(* One model turn decoded: the first candidate action and its conversion   *)
(***************************************************************************)

\* The `type` of the action objects: none, the accepted types and aliases, and
\* a type that _convert_openai_action_to_internal does not accept.
ActionTypes ==
    { << >>, <<"click">>, <<"double_click">>, <<"left_double">>,
      <<"right_single">>, <<"move">>, <<"type">>, <<"scroll">>, <<"keypress">>,
      <<"wait">>, <<"screenshot">>, <<"drag">>, <<"zoom">> }

\* The `button` of the action objects.
Buttons ==
    { << >>, <<Str("right")>>, <<Str("RIGHT")>>, <<Str("Right")>>,
      <<Str("left")>>, <<Str("middle")>>, <<NonStr>> }

\* Action objects of the Responses API: with or without a type, clicks with
\* every button, and every type with each of x, y, from_x, from_y, to_x, to_y
\* present or absent; a type action with its text and a keypress with its keys.
OpenAIActions ==
    { [OA0 EXCEPT !.type = t, !.button = b, !.x = x, !.y = y] :
          t \in {<< >>, <<"click">>}, b \in Buttons,
          x \in {<< >>, <<7>>}, y \in {<< >>, <<9>>} }
      \cup
    { [OA0 EXCEPT !.type = t, !.x = x, !.y = y, !.from_x = fx, !.from_y = fy,
                  !.to_x = tx, !.to_y = ty] :
          t \in ActionTypes, x \in {<< >>, <<7>>}, y \in {<< >>, <<9>>},
          fx \in {<< >>, <<1>>}, fy \in {<< >>, <<2>>},
          tx \in {<< >>, <<3>>}, ty \in {<< >>, <<4>>} }
      \cup
    { [OA0 EXCEPT !.type = <<"type">>, !.text = <<"hi">>],
      [OA0 EXCEPT !.type = <<"keypress">>, !.keys = <<<<"Enter">>>>],
      [OA0 EXCEPT !.type = <<"scroll">>, !.scroll_y = <<120>>] }

\* The responses of one turn.  Structured protocol: a response object with an
\* id (or none) whose output has no, one or two computer_call items, each
\* with a call_id (or none) and an action object.  Text protocol: the list of
\* actions the parser returned.
TurnResponses ==
    { [protocol |-> "structured", id |-> i, calls |-> << >>] :
          i \in {<< >>, <<"r1">>} }
      \cup
    { [protocol |-> "structured", id |-> i,
       calls |-> <<[call_id |-> c, action |-> a]>>] :
          i \in {<< >>, <<"r1">>}, c \in {<< >>, <<"c1">>}, a \in OpenAIActions }
      \cup
    { [protocol |-> "structured", id |-> i,
       calls |-> <<[call_id |-> c, action |-> a],
                   [call_id |-> <<"c2">>, action |-> ClickAt(<<2, 2>>)]>>] :
          i \in {<< >>, <<"r1">>}, c \in {<< >>, <<"c1">>}, a \in OpenAIActions }
      \cup
    { [protocol |-> "text", id |-> << >>, calls |-> << >>] }
      \cup
    { [protocol |-> "text", id |-> << >>, calls |-> <<a>>] : a \in ParsedActions }
      \cup
    { [protocol |-> "text", id |-> << >>, calls |-> <<a, b>>] :
          a \in ParsedActions, b \in ParsedActions }

\* `computer_calls[0]`, `parsed_actions[0]`: the candidate that is used.
FirstCandidate_Last(candidates) == candidates[Len(candidates)]

FirstCandidate(candidates) == candidates[1]

\* The turn starts with the loop state of a first call or of a later one.
InitDecode ==
    /\ PoolStart /\ GwIdle /\ policy = "none" /\ ExecIdle /\ RunIdle /\ AttIdle /\ TimeoutIdle /\ PromptIdle /\ VerifyIdle /\ RescaleIdle
    /\ dec_response \in TurnResponses
    /\ dec_before \in {NoStored, [response_id |-> "r0", call_id |-> "c0"]}
    /\ dec_response.protocol = "text" => dec_before = NoStored
    /\ dec_stored = dec_before
    /\ dec_result = NotDecoded

\* OperatorCUAPolicy._get_computer_use_action from `if computer_calls:` on:
\* the first computer_call is converted (an error raised by the conversion
\* leaves the loop state alone), then the loop state is updated from the
\* attributes that exist, and the action is returned.  Without a
\* computer_call no action is returned.
DecodeStructured ==
    /\ dec_response.protocol = "structured"
    /\ dec_result = NotDecoded
    /\ IF dec_response.calls = << >>
         THEN /\ dec_result' = DecodeError(NoComputerCallError)
              /\ UNCHANGED dec_stored
         ELSE LET computer_call == FirstCandidate(dec_response.calls)
                  d == ConvertOpenAIActionToInternal(computer_call.action)
              IN  /\ dec_result' = d
                  /\ dec_stored' =
                        IF UpdatesLoopState(d)
                          THEN [response_id |->
                                    GetAttr(dec_response.id, dec_stored.response_id),
                                call_id |->
                                    GetAttr(computer_call.call_id, dec_stored.call_id)]
                          ELSE dec_stored
    /\ UNCHANGED <<dec_response, dec_before>>

\* CUAPolicy._get_computer_use_action from `if parsed_actions and
\* len(parsed_actions) > 0:` on: the first parsed action is converted and
\* returned; without a parsed action no action is returned.
DecodeText ==
    /\ dec_response.protocol = "text"
    /\ dec_result = NotDecoded
    /\ dec_result' =
          IF dec_response.calls = << >>
            THEN DecodeError("No actions parsed from response")
            ELSE Decoded(ConvertParsedToInternal(FirstCandidate(dec_response.calls)))
    /\ UNCHANGED <<dec_response, dec_before, dec_stored>>

NextDecode ==
    \/ DecodeStructured /\ UNCHANGED <<poolVars, capVars, gwVars, execVars, runVars, attVars, timeoutVars, promptVars, verifyVars, rescaleVars>>
    \/ DecodeText /\ UNCHANGED <<poolVars, capVars, gwVars, execVars, runVars, attVars, timeoutVars, promptVars, verifyVars, rescaleVars>>

SpecDecode == InitDecode /\ [][NextDecode]_vars

\* The turn has been decoded, under the structured protocol, from a response
\* with at least one computer_call.
StructuredDone ==
    /\ dec_response.protocol = "structured"
    /\ dec_result # NotDecoded
    /\ dec_response.calls # << >>

\* The action object of the first computer_call of the response.
TurnAction == dec_response.calls[1].action

\* C25: an action object without a type is not decoded: the conversion raises
\* "Operator action missing type" and gives no action, whatever other
\* attributes the object has, and _last_response_id and _last_call_id stay
\* as they were before the turn.
C25_NoTypeNoAction ==
    (StructuredDone /\ ~Has(TurnAction.type)) =>
        /\ ~dec_result.ok
        /\ dec_result.action = NoAction
        /\ dec_result.error = "Operator action missing type"
        /\ dec_stored = dec_before

\* C25 witness: a typeless object with a button and coordinates, in a
\* response that has an id and a call_id, has been decoded.
C25_Witness ==
    /\ StructuredDone
    /\ ~Has(TurnAction.type)
    /\ Has(TurnAction.button) /\ Has(TurnAction.x) /\ Has(TurnAction.y)
    /\ Has(dec_response.id) /\ Has(dec_response.calls[1].call_id)
    /\ dec_before = NoStored

\* The types whose branch reads the coordinates x and y.
PointTypes ==
    { <<"click">>, <<"double_click">>, <<"left_double">>, <<"right_single">>,
      <<"move">> }

\* C26 (as claimed): decoding fails when the type is not accepted, when a
\* click, double click or move has no x or no y, when a type action has no
\* text, and when a drag lacks any of from_x, from_y, to_x, to_y.
C26_MissingFieldFails ==
    StructuredDone =>
        /\ (Has(TurnAction.type) /\ TurnAction.type = <<"zoom">>) => ~dec_result.ok
        /\ (TurnAction.type \in PointTypes
                /\ (~Has(TurnAction.x) \/ ~Has(TurnAction.y))) => ~dec_result.ok
        /\ (TurnAction.type = <<"type">> /\ ~Has(TurnAction.text)) => ~dec_result.ok
        /\ (TurnAction.type = <<"drag">>
                /\ (~Has(TurnAction.from_x) \/ ~Has(TurnAction.from_y)
                      \/ ~Has(TurnAction.to_x) \/ ~Has(TurnAction.to_y)))
              => ~dec_result.ok

\* C27: of the candidates of one response only the first is used: the turn
\* gives the conversion of the first computer_call's action (first parsed
\* action), an error if that conversion fails, and the _last_call_id kept is
\* the call_id of that first computer_call.
C27_FirstCandidateUsed ==
    (dec_result # NotDecoded /\ dec_response.calls # << >>) =>
        IF dec_response.protocol = "structured"
          THEN /\ dec_result = ConvertOpenAIActionToInternal(dec_response.calls[1].action)
               /\ dec_result.ok =>
                     dec_stored.call_id =
                         GetAttr(dec_response.calls[1].call_id, dec_before.call_id)
          ELSE dec_result = Decoded(ConvertParsedToInternal(dec_response.calls[1]))

\* C27 witness: a response with two computer_call items of different call_id
\* and different actions has been decoded into the first one's action.
C27_Witness ==
    /\ StructuredDone
    /\ Len(dec_response.calls) = 2
    /\ dec_response.calls[1].call_id = <<"c1">>
    /\ dec_result.ok
    /\ dec_result # ConvertOpenAIActionToInternal(dec_response.calls[2].action)
    /\ dec_stored.call_id = "c1"

\* C28: a click is decoded into a right click when its button is the string
\* "right" in any letter case, and into a left click for every other button:
\* none, something that is no string, "left", "middle".
C28_ClickButton ==
    (StructuredDone /\ TurnAction.type = <<"click">>) =>
        /\ dec_result.ok
        /\ dec_result.action.action =
              IF TurnAction.button \in {<<Str("right")>>, <<Str("RIGHT")>>, <<Str("Right")>>}
                THEN "right_click"
                ELSE "left_click"

\* C28 witness: a click with button "RIGHT" has been decoded into a right
\* click.
C28_Witness ==
    /\ StructuredDone
    /\ TurnAction.type = <<"click">>
    /\ TurnAction.button = <<Str("RIGHT")>>
    /\ dec_result.ok
    /\ dec_result.action.action = "right_click"

(***************************************************************************)
(* Prompt construction and the repeat warning                              *)
(***************************************************************************)

\* Steps of the trajectories handed to the prompt builders.
MaxTrajectory == 5

\* The actions of the trajectory steps: left clicks at two points, another
\* kind of click at the first point, and an action without coordinate.
StepActions ==
    { Act("left_click", <<1, 1>>, << >>, << >>),
      Act("left_click", <<2, 2>>, << >>, << >>),
      Act("right_click", <<1, 1>>, << >>, << >>),
      Act("type", << >>, <<"hi">>, << >>) }

RECURSIVE Trajectories(_)
Trajectories(n) ==
    IF n = 0 THEN { << >> }
    ELSE Trajectories(n - 1)
           \cup { Append(t, a) : t \in { u \in Trajectories(n - 1) : Len(u) = n - 1 },
                                 a \in StepActions }

\* `trajectory[-3:]` (OperatorCUAPolicy), `trajectory[-5:]` (CUAPolicy)
RecentWindow(p) == IF p = "operator" THEN 3 ELSE 5

\* trajectory[-n:]
Recent(trajectory_, n) ==
    IF Len(trajectory_) <= n THEN trajectory_
    ELSE SubSeq(trajectory_, Len(trajectory_) - n + 1, Len(trajectory_))

\* The test on the last two actions of `recent`.
IsRepeat_AnyPoint(last_action, second_last) ==
    /\ last_action.action = "left_click"
    /\ second_last.action = "left_click"

IsRepeat(last_action, second_last) ==
    /\ last_action.action = "left_click"
    /\ second_last.action = "left_click"
    /\ last_action.coordinate = second_last.coordinate

\* `repeat_warning`: << >> for the empty string, otherwise the point that the
\* warning names.
RepeatWarning(recent) ==
    IF Len(recent) >= 2 /\ IsRepeat(recent[Len(recent)], recent[Len(recent) - 1])
      THEN <<recent[Len(recent)].coordinate>>
      ELSE << >>

\* The prompt: build_operator_prompt / build_doubao_prompt put the warning
\* and the history of the recent steps into the text.
BuildComputerUsePrompt(p, trajectory_) ==
    LET recent == Recent(trajectory_, RecentWindow(p))
    IN  [built |-> TRUE,
         repeat_warning |-> IF trajectory_ = << >> THEN << >> ELSE RepeatWarning(recent),
         history |-> [i \in 1 .. Len(recent) |-> recent[i].action]]

InitPrompt ==
    /\ PoolStart /\ GwIdle /\ policy = "none" /\ ExecIdle /\ RunIdle /\ AttIdle /\ TimeoutIdle /\ DecodeIdle /\ VerifyIdle /\ RescaleIdle
    /\ pb_policy \in {"operator", "uitars"}
    /\ pb_trajectory \in Trajectories(MaxTrajectory)
    /\ pb_prompt = NoPrompt

\* _build_computer_use_prompt is called with the trajectory.
BuildPrompt ==
    /\ ~pb_prompt.built
    /\ pb_prompt' = BuildComputerUsePrompt(pb_policy, pb_trajectory)
    /\ UNCHANGED <<pb_policy, pb_trajectory>>

NextPrompt ==
    \/ BuildPrompt /\ UNCHANGED <<poolVars, capVars, gwVars, execVars, runVars, attVars, timeoutVars, decodeVars, verifyVars, rescaleVars>>

SpecPrompt == InitPrompt /\ [][NextPrompt]_vars

\* C29: the prompt of either policy has the repeat warning exactly when the
\* trajectory has at least two steps and its last two steps are left clicks
\* at the same coordinate, and the warning names that coordinate; a pair of
\* equal clicks further back, a different coordinate, another kind of action
\* among the last two and a trajectory of fewer than two steps give no
\* warning.
C29_RepeatWarning ==
    pb_prompt.built =>
        LET n == Len(pb_trajectory)
            repeated ==
                /\ n >= 2
                /\ pb_trajectory[n].action = "left_click"
                /\ pb_trajectory[n - 1].action = "left_click"
                /\ pb_trajectory[n].coordinate = pb_trajectory[n - 1].coordinate
        IN  /\ Has(pb_prompt.repeat_warning) <=> repeated
            /\ repeated => pb_prompt.repeat_warning = <<pb_trajectory[n].coordinate>>

\* C29 witness: a prompt with the warning, built by CUAPolicy from a
\* trajectory longer than the window of OperatorCUAPolicy whose earlier steps
\* are other actions.
C29_Witness ==
    /\ pb_prompt.built
    /\ pb_policy = "uitars"
    /\ Len(pb_trajectory) = 4
    /\ pb_trajectory[1].action = "type"
    /\ pb_trajectory[2].action = "left_click"
    /\ pb_trajectory[2].coordinate # pb_trajectory[3].coordinate
    /\ Has(pb_prompt.repeat_warning)

(***************************************************************************)
(* Screenshot verifier                                                     *)
(***************************************************************************)

\* `for attempt in range(5)` of VLMVerifier.verify
VerifyAttempts == 5

\* `mode not in ("screenshot_only", "screenshot_expected")`
ValidMode(mode) == mode \in {"screenshot_only", "screenshot_expected"}

ModeError == "mode must be 'screenshot_only' or 'screenshot_expected'"

ExpectedTextError == "expected_text is required for screenshot_expected mode"

\* What _parse_verdict_json makes of a response text: json.loads raises, or
\* gives a value that is no object, or an object with or without each of the
\* keys verdict, confidence, reason and used_screenshots.
ParsedVerdicts ==
    { [kind |-> "invalid", verdict |-> << >>, confidence |-> FALSE,
       reason |-> FALSE, used_screenshots |-> FALSE],
      [kind |-> "list", verdict |-> << >>, confidence |-> FALSE,
       reason |-> FALSE, used_screenshots |-> FALSE] }
      \cup
    [kind : {"dict"}, verdict : {<< >>, <<"pass">>, <<"fail">>, <<"maybe">>},
     confidence : BOOLEAN, reason : BOOLEAN, used_screenshots : BOOLEAN]

\* The exception raised between the model call and `return parsed` for a
\* response parsed into p, "none" when `return parsed` is reached.
SchemaError_VerdictOnly(p) ==
    IF p.kind = "invalid" THEN "JSONDecodeError"
    ELSE IF p.kind = "list" THEN "AttributeError"
    ELSE IF p.verdict \notin {<<"pass">>, <<"fail">>} THEN "invalid verdict"
    ELSE "none"

SchemaError(p) ==
    IF p.kind = "invalid" THEN "JSONDecodeError"
    ELSE IF p.kind = "list" THEN "AttributeError"
    ELSE IF p.verdict \notin {<<"pass">>, <<"fail">>} THEN "invalid verdict"
    ELSE IF ~p.confidence THEN "missing confidence"
    ELSE IF ~p.reason THEN "missing reason"
    ELSE IF ~p.used_screenshots THEN "missing used_screenshots"
    ELSE "none"

InitVerify ==
    /\ PoolStart /\ GwIdle /\ policy = "none" /\ ExecIdle /\ RunIdle /\ AttIdle /\ TimeoutIdle /\ DecodeIdle /\ PromptIdle /\ RescaleIdle
    /\ vf_mode \in {"screenshot_only", "screenshot_expected", "screenshot"}
    /\ vf_expected \in BOOLEAN
    /\ vf_model \in {"gpt5", "qwen"}
    /\ vf_pc = "idle"
    /\ vf_calls = 0
    /\ vf_errors = << >>
    /\ vf_last_error = "None"
    /\ vf_result = "none"

\* verify up to its first model call: the mode is checked, then the prompt is
\* built (which needs expected_text in screenshot_expected mode).
Verify ==
    /\ vf_pc = "idle"
    /\ IF ~ValidMode(vf_mode)
         THEN vf_pc' = "raised" /\ vf_result' = ModeError
       ELSE IF vf_mode = "screenshot_expected" /\ ~vf_expected
         THEN vf_pc' = "raised" /\ vf_result' = ExpectedTextError
       ELSE vf_pc' = "attempt" /\ UNCHANGED vf_result
    /\ UNCHANGED <<vf_mode, vf_expected, vf_model, vf_calls, vf_errors, vf_last_error>>

\* The except branch for exception e: last_error = e; continue.  After the
\* last iteration the loop ends and last_error is raised.
VerifyExcept(e) ==
    /\ vf_last_error' = e
    /\ vf_errors' = Append(vf_errors, e)
    /\ IF Len(vf_errors) + 1 >= VerifyAttempts
         THEN vf_pc' = "raised" /\ vf_result' = e
         ELSE UNCHANGED <<vf_pc, vf_result>>

\* One iteration whose model call (call_model_with_gpt5_params for gpt5,
\* call_model otherwise) raises e.
VerifyCallRaises(e) ==
    /\ vf_pc = "attempt"
    /\ vf_calls' = vf_calls + 1
    /\ VerifyExcept(e)
    /\ UNCHANGED <<vf_mode, vf_expected, vf_model>>

\* One iteration whose model call returns a text that parses into p: p is
\* returned when it passes the schema checks, otherwise the check raises.
VerifyCallReturns(p) ==
    /\ vf_pc = "attempt"
    /\ vf_calls' = vf_calls + 1
    /\ IF SchemaError(p) = "none"
         THEN /\ vf_pc' = "returned"
              /\ vf_result' = p
              /\ UNCHANGED <<vf_errors, vf_last_error>>
         ELSE VerifyExcept(SchemaError(p))
    /\ UNCHANGED <<vf_mode, vf_expected, vf_model>>

NextVerify ==
    \/ Verify /\ UNCHANGED <<poolVars, capVars, gwVars, execVars, runVars, attVars, timeoutVars, decodeVars, promptVars, rescaleVars>>
    \/ \E e \in Errors : VerifyCallRaises(e) /\ UNCHANGED <<poolVars, capVars, gwVars, execVars, runVars, attVars, timeoutVars, decodeVars, promptVars, rescaleVars>>
    \/ \E p \in ParsedVerdicts : VerifyCallReturns(p) /\ UNCHANGED <<poolVars, capVars, gwVars, execVars, runVars, attVars, timeoutVars, decodeVars, promptVars, rescaleVars>>

SpecVerify == InitVerify /\ [][NextVerify]_vars

\* C30: verify makes at most 5 model calls; what it returns is the parsed
\* object of a response, with verdict pass or fail and with confidence,
\* reason and used_screenshots; it raises after the 5th failed attempt, and
\* then the error of that attempt; with an invalid mode it raises the mode
\* error without any model call.
C30_VerifyStrict ==
    /\ vf_calls <= 5
    /\ vf_pc = "attempt" => Len(vf_errors) < 5
    /\ vf_pc = "returned" =>
          /\ vf_result \in ParsedVerdicts
          /\ vf_result.kind = "dict"
          /\ vf_result.verdict \in {<<"pass">>, <<"fail">>}
          /\ vf_result.confidence /\ vf_result.reason /\ vf_result.used_screenshots
    /\ (vf_pc = "raised" /\ vf_calls > 0) =>
          /\ vf_calls = 5
          /\ Len(vf_errors) = 5
          /\ vf_result = vf_errors[5]
    /\ (vf_pc # "idle" /\ vf_mode \notin {"screenshot_only", "screenshot_expected"}) =>
          /\ vf_pc = "raised"
          /\ vf_result = ModeError
          /\ vf_calls = 0

\* C30 witness: five failed attempts of different kinds, the last one a
\* response without confidence, and verify has raised that last error.
C30_Witness ==
    /\ vf_pc = "raised"
    /\ vf_calls = 5
    /\ vf_errors[1] = "JSONDecodeError"
    /\ vf_errors[2] = "Connection error"
    /\ vf_errors[4] = "invalid verdict"
    /\ vf_errors[5] = "missing confidence"
    /\ vf_result = "missing confidence"

(***************************************************************************)
(* Text-grammar coordinates: from the resized space to the viewport       *)
(***************************************************************************)

\* `factor=28` of the parser call
ImageFactor == 28

\* Viewports of the session the policy is configured with.
Viewports ==
    { [width |-> 1280, height |-> 720],
      [width |-> 1280, height |-> 1024],
      [width |-> 1024, height |-> 768] }

\* The verbs with a point, and the points the model writes (in its resized
\* coordinate space).
PointVerbs == {"click", "left_double", "right_single"}

ModelPoints == { <<x, y>> : x \in {0, 14, 644, 1288}, y \in {0, 14, 364, 728} }

\* The calls written after `Action:`; "unknown" is a verb outside the set.
TextActions ==
    { [verb |-> v, point |-> p] : v \in PointVerbs, p \in ModelPoints }
      \cup { [verb |-> "finished", point |-> << >>],
             [verb |-> "unknown", point |-> << >>] }

\* Text responses with an Action line of one or two calls.
TextGrammarResponses ==
    { [thought |-> th, actions |-> <<a>>] : th \in BOOLEAN, a \in TextActions }
      \cup
    { [thought |-> th, actions |-> <<a, [verb |-> "finished", point |-> << >>]>>] :
          th \in BOOLEAN, a \in TextActions }

\* The keyword arguments of the parser call.
ParserArgs_Swapped(display) ==
    [factor |-> ImageFactor,
     origin_resized_height |-> display.width,
     origin_resized_width |-> display.height]

ParserArgs(display) ==
    [factor |-> ImageFactor,
     origin_resized_height |-> display.height,
     origin_resized_width |-> display.width]

\* The side of the resized image: the multiple of the factor nearest to the
\* side of the viewport.
ResizedDim(dim, factor) == ((2 * dim + factor) \div (2 * factor)) * factor

\* A coordinate of the resized space in the viewport: v * viewport_dim /
\* resize_factor_dim, as an integer.
Rescale(v, viewport_dim, resized_dim) == (v * viewport_dim) \div resized_dim

\* parse_action_to_structure_output: the calls with a recognized verb, their
\* points rescaled with the sides it was given.
RECURSIVE ParseActionToStructureOutput(_, _)
ParseActionToStructureOutput(actions, args) ==
    IF actions = << >> THEN << >>
    ELSE LET a == Head(actions)
             rest == ParseActionToStructureOutput(Tail(actions), args)
             w == args.origin_resized_width
             h == args.origin_resized_height
         IN  IF a.verb = "unknown" THEN rest
             ELSE IF a.point = << >> THEN <<a>> \o rest
             ELSE <<[verb |-> a.verb,
                     point |-> <<Rescale(a.point[1], w, ResizedDim(w, args.factor)),
                                 Rescale(a.point[2], h, ResizedDim(h, args.factor))>>]>>
                    \o rest

InitRescale ==
    /\ PoolStart /\ GwIdle /\ policy = "none" /\ ExecIdle /\ RunIdle /\ AttIdle /\ TimeoutIdle /\ DecodeIdle /\ PromptIdle /\ VerifyIdle
    /\ rs_display \in Viewports
    /\ rs_text \in TextGrammarResponses
    /\ rs_result = NotDecoded

\* CUAPolicy._get_computer_use_action on a response with an Action line: the
\* parser is called with the factor and the sides of the display, and the
\* first parsed action is converted and returned.
DecodeTextResponse ==
    /\ rs_result = NotDecoded
    /\ LET parsed_actions ==
               ParseActionToStructureOutput(rs_text.actions, ParserArgs(rs_display))
       IN  rs_result' =
             IF parsed_actions = << >>
               THEN DecodeError("No actions parsed from response")
               ELSE Decoded(ConvertParsedToInternal(FirstCandidate(parsed_actions)))
    /\ UNCHANGED <<rs_display, rs_text>>

\* The decoded response is looked at again by the caller.
DecodeTextAgain ==
    /\ rs_result # NotDecoded
    /\ rs_text' \in TextGrammarResponses
    /\ rs_result' = NotDecoded
    /\ UNCHANGED rs_display

NextRescale ==
    \/ DecodeTextResponse /\ UNCHANGED <<poolVars, capVars, gwVars, execVars, runVars, attVars, timeoutVars, decodeVars, promptVars, verifyVars>>
    \/ DecodeTextAgain /\ UNCHANGED <<poolVars, capVars, gwVars, execVars, runVars, attVars, timeoutVars, decodeVars, promptVars, verifyVars>>

SpecRescale == InitRescale /\ [][NextRescale]_vars

\* The response has exactly one call, and its verb is recognized.
OneRecognizedVerb ==
    /\ Len(rs_text.actions) = 1
    /\ rs_text.actions[1].verb # "unknown"

====
